---- MODULE Spec2Model ----
(***************************************************************************)
(* A model of invoicer.py: the monetary engine (d2, compute_totals and the *)
(* two display paths), the snapshot encoder of build_pdf_bytes, the        *)
(* payload extractor, the decoder and the Step-0 prefill.                  *)
(*                                                                         *)
(* Text is modelled character by character on strings.  A Python float or  *)
(* Decimal is modelled exactly as an integer number of ten-thousandths     *)
(* (1.5 is 15000, 0.3333 is 3333); an amount quantized by DEC_QUANT is an   *)
(* integer number of hundredths (60.00 is 6000).                           *)
(***************************************************************************)
EXTENDS Integers, Sequences, FiniteSets, TLC

VARIABLES
    pc,          \* the wizard page / phase of the run
    session,     \* st.session_state: profile, client, invoice, line_items, payments
    shown,       \* what the current page displays (totals, line totals)
    exported,    \* the session state the last PDF was built from
    embedded,    \* the payload line build_pdf_bytes put into that PDF
    pdf_text,    \* the text extract_text recovers from the uploaded PDF
    quant        \* the last call of d2: its argument and its result

vars == <<pc, session, shown, exported, embedded, pdf_text, quant>>

(***************************************************************************)
(* Bounds of the model.                                                    *)
(***************************************************************************)
MaxItems == 2
MaxAbsInput == 10100

(***************************************************************************)
(* Monetary engine.                                                        *)
(***************************************************************************)
\* Ten-thousandths per unit: the scale of every modelled float / Decimal.
Frac == 100 * 100

\* DEC_QUANT = Decimal("0.01"): hundredths per unit.
DEC_QUANT == 100

Abs(n) == IF n < 0 THEN -n ELSE n

\* Decimal.quantize(..., rounding=ROUND_HALF_UP): n / q to the nearest integer,
\* a tie going away from zero.
ROUND_HALF_UP(n, q) ==
    IF n >= 0 THEN (2 * n + q) \div (2 * q)
    ELSE -((2 * (-n) + q) \div (2 * q))

\* Decimal.quantize(...) under the default context (ROUND_HALF_EVEN): a tie
\* goes to the even neighbour.
ROUND_HALF_EVEN(n, q) ==
    LET fl == n \div q
        rem == n % q
    IN  IF 2 * rem > q THEN fl + 1
        ELSE IF 2 * rem < q THEN fl
        ELSE IF fl % 2 = 0 THEN fl ELSE fl + 1

\* A mutant of d2: the next cent above the truncated value, exact or not.
d2_bumping(x) == x \div (Frac \div DEC_QUANT) + 1

\* The mutant of d2: truncation instead of rounding.
d2_truncating(x) == IF x >= 0 THEN x \div (Frac \div DEC_QUANT)
                    ELSE -((-x) \div (Frac \div DEC_QUANT))

\* d2(x): x (ten-thousandths) quantized to hundredths, half up.
d2(x) == ROUND_HALF_UP(x, Frac \div DEC_QUANT)

\* it.get("qty", 0) / it.get("rate", 0)
ItemGet(it, k) == IF k \in DOMAIN it THEN it[k] ELSE 0

\* compute_totals, loop body: the line total added to the subtotal.
line_total(it) ==
    LET qty  == d2(ItemGet(it, "qty"))
        rate == d2(ItemGet(it, "rate"))
    IN  ROUND_HALF_UP(qty * rate, DEC_QUANT)

\* The mutant of compute_totals' loop: the unrounded products are summed and
\* only the sum is quantized.
RECURSIVE subtotal_unrounded(_, _, _)
subtotal_unrounded(items, i, acc) ==
    IF i > Len(items) THEN ROUND_HALF_UP(acc, DEC_QUANT)
    ELSE subtotal_unrounded(items, i + 1,
             acc + d2(ItemGet(items[i], "qty")) * d2(ItemGet(items[i], "rate")))

\* compute_totals, the for loop: subtotal += line_total, from item i on.
RECURSIVE subtotal_loop(_, _, _)
subtotal_loop(items, i, acc) ==
    IF i > Len(items) THEN acc
    ELSE subtotal_loop(items, i + 1, acc + line_total(items[i]))

\* An exact Decimal product a * b over the scale q with the common powers of
\* ten cancelled (Decimal arithmetic is exact; this keeps the integers small).
RECURSIVE Reduced(_, _, _)
Reduced(a, b, q) ==
    IF q % 10 = 0 /\ a % 10 = 0 THEN Reduced(a \div 10, b, q \div 10)
    ELSE IF q % 10 = 0 /\ b % 10 = 0 THEN Reduced(a, b \div 10, q \div 10)
    ELSE [n |-> a * b, q |-> q]

\* The mutant of the tax computation: the tax is truncated to the cent.
tax_amount_truncating(subtotal, tax_rate_percent) ==
    LET r == Reduced(subtotal, tax_rate_percent, Frac * 100)
    IN  r.n \div r.q

\* tax_amount = (subtotal * Decimal(str(tax_rate_percent)) / 100).quantize(...)
tax_amount_of(subtotal, tax_rate_percent) ==
    LET r == Reduced(subtotal, tax_rate_percent, Frac * 100)
    IN  ROUND_HALF_UP(r.n, r.q)

\* compute_totals(items, tax_rate_percent) -> (subtotal, tax_amount, total),
\* all three in hundredths.
compute_totals(items, tax_rate_percent) ==
    LET \* subtotal = subtotal.quantize(...): a sum of hundredths
        subtotal   == ROUND_HALF_UP(subtotal_loop(items, 1, 0), 1)
        tax_amount == tax_amount_of(subtotal, tax_rate_percent)
        \* (subtotal + tax_amount).quantize(...): a sum of hundredths
        total      == ROUND_HALF_UP(subtotal + tax_amount, 1)
    IN  [subtotal |-> subtotal, tax_amount |-> tax_amount, total |-> total]

\* items_table_preview_html: line_total = d2(qty) * rate, printed with
\* line_total.quantize(DEC_QUANT), which names no rounding mode.
preview_line_total(it) ==
    LET qty  == ItemGet(it, "qty")
        rate == d2(ItemGet(it, "rate"))
    IN  ROUND_HALF_EVEN(d2(qty) * rate, DEC_QUANT)

\* build_pdf_bytes, items table:
\* total_line = (d2(qty) * rate).quantize(DEC_QUANT, rounding=ROUND_HALF_UP)
pdf_line_total(it) ==
    LET qty  == ItemGet(it, "qty")
        rate == d2(ItemGet(it, "rate"))
    IN  ROUND_HALF_UP(d2(qty) * rate, DEC_QUANT)

(***************************************************************************)
(* Characters and strings.                                                 *)
(***************************************************************************)
Ch(s, i) == SubSeq(s, i, i)
CharsOf(s) == {Ch(s, i) : i \in 1..Len(s)}

\* What the regex class \s and str.strip() take for whitespace, within the
\* model's alphabet (the extractor has turned U+00A0 into a space before).
Whitespace == {" ", "\t", "\n", "\r"}
Digits == CharsOf("0123456789")
\* [a-z0-9_] under re.IGNORECASE
KeyChars == CharsOf("abcdefghijklmnopqrstuvwxyz")
            \cup CharsOf("ABCDEFGHIJKLMNOPQRSTUVWXYZ") \cup Digits \cup {"_"}

DigitVal(c) == CHOOSE n \in 0..9 : Ch("0123456789", n + 1) = c
DigitChar(n) == Ch("0123456789", n + 1)

StartsWith(s, p) == Len(s) >= Len(p) /\ SubSeq(s, 1, Len(p)) = p
Drop(s, n) == SubSeq(s, n + 1, Len(s))

Min(S) == CHOOSE x \in S : \A y \in S : x <= y

\* The elements of a finite set of integers, ascending.
SortedSeq(S) ==
    [i \in 1..Cardinality(S) |-> CHOOSE x \in S : Cardinality({y \in S : y < x}) = i - 1]

RECURSIVE ConcatRange(_, _, _)
ConcatRange(ss, lo, hi) ==
    IF lo > hi THEN ""
    ELSE IF lo = hi THEN ss[lo]
    ELSE LET mid == (lo + hi) \div 2
         IN  ConcatRange(ss, lo, mid) \o ConcatRange(ss, mid + 1, hi)

\* "".join(ss)
Concat(ss) == ConcatRange(ss, 1, Len(ss))

\* sep.join(ss)
Join(sep, ss) ==
    Concat([i \in 1..Len(ss) |-> IF i = 1 THEN ss[i] ELSE sep \o ss[i]])

\* The positions at which p occurs in s.
Occurrences(s, p) ==
    {i \in 1..(Len(s) - Len(p) + 1) : SubSeq(s, i, i + Len(p) - 1) = p}

\* s cut at the occurrences of the separator p (str.split(p)); p does not
\* overlap itself.
Split(s, p) ==
    LET at == SortedSeq(Occurrences(s, p))
        n  == Len(at)
    IN  [j \in 1..(n + 1) |->
            SubSeq(s, IF j = 1 THEN 1 ELSE at[j - 1] + Len(p),
                      IF j = n + 1 THEN Len(s) ELSE at[j] - 1)]

\* str.replace(old, new), for an old that does not overlap itself.
Replace(s, old, new) == Join(new, Split(s, old))

RECURSIVE RFind(_, _, _)
\* The greatest i <= from with s[i] = c, or 0.
RFind(s, c, from) ==
    IF from < 1 THEN 0
    ELSE IF Ch(s, from) = c THEN from
    ELSE RFind(s, c, from - 1)

RECURSIVE LStrip(_)
LStrip(s) == IF s # "" /\ Ch(s, 1) \in Whitespace THEN LStrip(Drop(s, 1)) ELSE s
RECURSIVE RStrip(_)
RStrip(s) == IF s # "" /\ Ch(s, Len(s)) \in Whitespace
             THEN RStrip(SubSeq(s, 1, Len(s) - 1)) ELSE s
\* str.strip()
Strip(s) == RStrip(LStrip(s))

AllDigits(s) == s # "" /\ \A i \in 1..Len(s) : Ch(s, i) \in Digits

LowerLetters == "abcdefghijklmnopqrstuvwxyz"
UpperLetters == "ABCDEFGHIJKLMNOPQRSTUVWXYZ"
MapCh(c, from, to) ==
    IF c \in CharsOf(from) THEN Ch(to, CHOOSE i \in 1..Len(from) : Ch(from, i) = c) ELSE c
\* str.lower() / str.upper()
Lower(s) == Concat([i \in 1..Len(s) |-> MapCh(Ch(s, i), UpperLetters, LowerLetters)])
Upper(s) == Concat([i \in 1..Len(s) |-> MapCh(Ch(s, i), LowerLetters, UpperLetters)])

RECURSIVE DigitsVal(_)
\* int(s) for a string of digits
DigitsVal(s) ==
    IF s = "" THEN 0
    ELSE 10 * DigitsVal(SubSeq(s, 1, Len(s) - 1)) + DigitVal(Ch(s, Len(s)))

RECURSIVE NatStr(_)
\* str(n) for an int n >= 0
NatStr(n) == IF n < 10 THEN DigitChar(n) ELSE NatStr(n \div 10) \o DigitChar(n % 10)

\* str(n) for an int
IntStr(n) == IF n < 0 THEN "-" \o NatStr(-n) ELSE NatStr(n)

RECURSIVE ZeroPad(_, _)
\* f"{n:0{w}d}" for n >= 0
ZeroPad(s, w) == IF Len(s) >= w THEN s ELSE ZeroPad("0" \o s, w)

RECURSIVE TrimZeros(_)
TrimZeros(s) == IF Len(s) > 1 /\ Ch(s, Len(s)) = "0"
                THEN TrimZeros(SubSeq(s, 1, Len(s) - 1)) ELSE s

\* str(x) for a float x (ten-thousandths): the shortest decimal that reads
\* back as x, with at least one place ("20.0", "1.5", "0.3333").
FloatStr(x) ==
    LET a == Abs(x)
    IN  (IF x < 0 THEN "-" ELSE "") \o NatStr(a \div Frac) \o "."
        \o TrimZeros(ZeroPad(NatStr(a % Frac), 4))

(***************************************************************************)
(* Payload extractor: extract_enc_payload_text_from_pdf.                   *)
(***************************************************************************)
\* html.unescape(raw), for the one entity of the model's alphabet: "&amp;",
\* and "&amp" without its semicolon (which html.unescape resolves too).
html_unescape(raw) ==
    LET cut == Split(raw, "&amp")
    IN  Concat([j \in 1..Len(cut) |->
            IF j = 1 THEN cut[j]
            ELSE "&" \o (IF StartsWith(cut[j], ";") THEN Drop(cut[j], 1) ELSE cut[j])])

RECURSIVE SkipIn(_, _, _)
\* The first position >= i of t whose character is not in C (Len(t)+1 if none).
SkipIn(t, i, C) ==
    IF i <= Len(t) /\ Ch(t, i) \in C THEN SkipIn(t, i + 1, C) ELSE i

\* (?i)enc_ at position i
EncPrefixAt(t, i) ==
    /\ i + 3 <= Len(t)
    /\ Ch(t, i) \in {"e", "E"}
    /\ Ch(t, i + 1) \in {"n", "N"}
    /\ Ch(t, i + 2) \in {"c", "C"}
    /\ Ch(t, i + 3) = "_"

NoKey == [ok |-> FALSE, key_end |-> 0, val_start |-> 0]

RECURSIVE KeyTail(_, _)
\* After a run of key characters ending before j: either \s*= closes the key,
\* or (?:\s*\n\s*[a-z0-9_]+) continues it on the next line.
KeyTail(t, j) ==
    LET w == SkipIn(t, j, Whitespace)
    IN  IF w <= Len(t) /\ Ch(t, w) = "="
        THEN [ok |-> TRUE, key_end |-> j - 1, val_start |-> SkipIn(t, w + 1, Whitespace)]
        ELSE IF /\ w <= Len(t)
                /\ Ch(t, w) \in KeyChars
                /\ \E b \in j..(w - 1) : Ch(t, b) = "\n"
        THEN KeyTail(t, SkipIn(t, w, KeyChars))
        ELSE NoKey

\* A mutant of the key pattern: enc_[a-z0-9_]* , a key with nothing after "enc_".
KeyMatch_empty_key(t, i) ==
    IF ~EncPrefixAt(t, i) THEN NoKey ELSE KeyTail(t, SkipIn(t, i + 4, KeyChars))

\* pair_re at position i, up to and including "\s*=\s*":
\* (enc_[a-z0-9_]+(?:\s*\n\s*[a-z0-9_]+)*)\s*=\s*
KeyMatch(t, i) ==
    IF ~EncPrefixAt(t, i) THEN NoKey
    ELSE LET j == SkipIn(t, i + 4, KeyChars)
         IN  IF j = i + 4 THEN NoKey ELSE KeyTail(t, j)

\* The lookahead (?=\s*&\s*enc_...\s*=): the "&" positions that end a value.
Boundaries(t) ==
    {a \in 1..Len(t) : Ch(t, a) = "&" /\ KeyMatch(t, SkipIn(t, a + 1, Whitespace)).ok}

\* The positions at which pair_re.finditer finds its matches: the first key of
\* the text, then the key after each boundary.
MatchStarts(t) ==
    LET firsts == {i \in 1..Len(t) : EncPrefixAt(t, i) /\ KeyMatch(t, i).ok}
    IN  IF firsts = {} THEN <<>>
        ELSE LET m1 == Min(firsts)
                 bs == SortedSeq({a \in Boundaries(t) : a > m1})
             IN  <<[amp |-> 0, key |-> m1]>> \o
                 [j \in 1..Len(bs) |->
                     [amp |-> bs[j], key |-> SkipIn(t, bs[j] + 1, Whitespace)]]

RECURSIVE RemoveWhitespace(_)
\* re.sub(r'\s+', '', k)
RemoveWhitespace(k) ==
    IF k = "" THEN ""
    ELSE IF Ch(k, 1) \in Whitespace THEN RemoveWhitespace(Drop(k, 1))
    ELSE Ch(k, 1) \o RemoveWhitespace(Drop(k, 1))

RECURSIVE CollapseBreaks(_)
\* re.sub(r'\s*\n\s*', ' ', v): a run of whitespace holding a line break
\* becomes one space; any other run is kept as it is.
CollapseBreaks(v) ==
    IF v = "" THEN ""
    ELSE LET w == SkipIn(v, 1, Whitespace)
         IN  IF w = 1 THEN Ch(v, 1) \o CollapseBreaks(Drop(v, 1))
             ELSE IF \E b \in 1..(w - 1) : Ch(v, b) = "\n"
             THEN " " \o CollapseBreaks(Drop(v, w - 1))
             ELSE SubSeq(v, 1, w - 1) \o CollapseBreaks(Drop(v, w - 1))

\* The loop body's value clean-up.
NormaliseValue(v) ==
    Strip(CollapseBreaks(Replace(Replace(v, "\r\n", "\n"), "\r", "\n")))

\* The loop of the extractor: one (key, value) per match of pair_re.
ExtractPairs(txt) ==
    LET ms == MatchStarts(txt)
    IN  [j \in 1..Len(ms) |->
            LET km  == KeyMatch(txt, ms[j].key)
                fin == IF j < Len(ms) THEN ms[j + 1].amp - 1 ELSE Len(txt)
            IN  [k |-> RemoveWhitespace(SubSeq(txt, ms[j].key, km.key_end)),
                 v |-> NormaliseValue(SubSeq(txt, km.val_start, fin))]]

\* extract_enc_payload_text_from_pdf, given the text extract_text returns.
extract_enc_payload_text_from_pdf(raw) ==
    LET txt   == html_unescape(raw)
        pairs == ExtractPairs(txt)
    IN  Join("&", [j \in 1..Len(pairs) |-> pairs[j].k \o "=" \o pairs[j].v])

(***************************************************************************)
(* Decoder: parse_enc_payload_to_dict.                                     *)
(***************************************************************************)
\* ENC_KV_PAIR.match(tok): ^(enc_[a-z0-9_]+)=(.*)$ ; the position of "=", or 0.
PairEq(tok) ==
    IF ~EncPrefixAt(tok, 1) THEN 0
    ELSE LET j == SkipIn(tok, 5, KeyChars)
         IN  IF /\ j > 5
                /\ j <= Len(tok)
                /\ Ch(tok, j) = "="
                /\ \A b \in (j + 1)..Len(tok) : Ch(tok, b) # "\n"
             THEN j ELSE 0

\* v.strip().upper() == "NIL"
IsNIL(v) == Upper(Strip(v)) = "NIL"

\* parse_enc_payload_to_dict: the dict as its keys in insertion order and
\* the value last stored under each.
parse_enc_payload_to_dict(payload_line) ==
    LET toks  == IF payload_line = "" THEN <<>>
                 ELSE [j \in 1..Len(Split(payload_line, "&")) |->
                          Strip(Split(payload_line, "&")[j])]
        good  == {j \in 1..Len(toks) : PairEq(toks[j]) > 0}
        keyOf(j) == SubSeq(toks[j], 1, PairEq(toks[j]) - 1)
        valOf(j) ==
            LET v == Replace(Drop(toks[j], PairEq(toks[j])), "&amp;", "&")
            IN  IF IsNIL(v) THEN "" ELSE v
        firstOf == {j \in good : \A h \in good : h < j => keyOf(h) # keyOf(j)}
        order == SortedSeq(firstOf)
    IN  [keys |-> [n \in 1..Len(order) |-> keyOf(order[n])],
         val  |-> [k \in {keyOf(j) : j \in good} |->
                      valOf(CHOOSE j \in good :
                          keyOf(j) = k /\ \A h \in good : keyOf(h) = k => h <= j)]]

\* A mutant of enc.get: an absent key reads as the sentinel text.
EncGet_sentinel(enc, k, default) == IF k \in DOMAIN enc.val THEN enc.val[k] ELSE "NIL"

\* enc.get(k, default)
EncGet(enc, k, default) == IF k \in DOMAIN enc.val THEN enc.val[k] ELSE default

(***************************************************************************)
(* Python values: None, and the optional int of terms_days.                *)
(***************************************************************************)
None == <<>>
Some(n) == <<n>>

\* The values handed to _enc_scalar, tagged by their Python type.
PyNone == [t |-> "none"]
PyBool(b) == [t |-> "bool", b |-> b]
PyStr(s) == [t |-> "str", s |-> s]
PyInt(n) == [t |-> "int", n |-> n]
PyFloat(x) == [t |-> "float", x |-> x]
PyOptInt(o) == IF o = None THEN PyNone ELSE PyInt(o[1])
\* d.get(k) for a text field: None when the key is absent
GetStr(d, k) == IF k \in DOMAIN d THEN PyStr(d[k]) ELSE PyNone
\* d.get(k, "")
GetOr(d, k, default) == IF k \in DOMAIN d THEN d[k] ELSE default

(***************************************************************************)
(* Dates.                                                                  *)
(***************************************************************************)
IsLeap(y) == (y % 4 = 0 /\ y % 100 # 0) \/ y % 400 = 0
DaysInMonth(y, m) ==
    IF m = 2 THEN (IF IsLeap(y) THEN 29 ELSE 28)
    ELSE IF m \in {4, 6, 9, 11} THEN 30 ELSE 31
ValidDate(y, m, d) == m \in 1..12 /\ d >= 1 /\ d <= DaysInMonth(y, m)
Date(y, m, d) == [y |-> y, m |-> m, d |-> d]

RECURSIVE AddDays(_, _)
\* inv_date + timedelta(days=n), n >= 0
AddDays(dt, n) ==
    IF n = 0 THEN dt
    ELSE IF dt.d < DaysInMonth(dt.y, dt.m) THEN AddDays(Date(dt.y, dt.m, dt.d + 1), n - 1)
    ELSE IF dt.m < 12 THEN AddDays(Date(dt.y, dt.m + 1, 1), n - 1)
    ELSE AddDays(Date(dt.y + 1, 1, 1), n - 1)

\* A mutant of compute_due_date: the invoice date + N days.
compute_due_date_inclusive(inv_date, terms_days) ==
    AddDays(inv_date, IF terms_days > 0 THEN terms_days ELSE 0)

\* compute_due_date: invoice date + max(0, N - 1) days
compute_due_date(inv_date, terms_days) ==
    AddDays(inv_date, IF terms_days - 1 > 0 THEN terms_days - 1 ELSE 0)

\* format_region_date: "%m/%d/%Y" for the US, "%d/%m/%Y" otherwise
format_region_date(dt, region) ==
    LET dd == ZeroPad(NatStr(dt.d), 2)
        mm == ZeroPad(NatStr(dt.m), 2)
        yy == ZeroPad(NatStr(dt.y), 4)
    IN  IF region = "US" THEN mm \o "/" \o dd \o "/" \o yy
        ELSE dd \o "/" \o mm \o "/" \o yy

\* datetime.strptime(s.strip(), "%d/%m/%Y").date(), or None when it raises:
\* one or two digits of day and of month, four of year, a date of the calendar.
strptime_dmy(s) ==
    LET parts == Split(Strip(s), "/")
    IN  IF /\ Len(parts) = 3
           /\ AllDigits(parts[1]) /\ Len(parts[1]) <= 2
           /\ AllDigits(parts[2]) /\ Len(parts[2]) <= 2
           /\ AllDigits(parts[3]) /\ Len(parts[3]) = 4
           /\ ValidDate(DigitsVal(parts[3]), DigitsVal(parts[2]), DigitsVal(parts[1]))
        THEN Some(Date(DigitsVal(parts[3]), DigitsVal(parts[2]), DigitsVal(parts[1])))
        ELSE None

\* _parse_invoice_date(s): the session's invoice date when s is empty or
\* does not parse.
parse_invoice_date(s, current) ==
    IF s = "" \/ strptime_dmy(s) = None THEN current ELSE strptime_dmy(s)[1]

(***************************************************************************)
(* Decoder helpers.                                                        *)
(***************************************************************************)
Unsigned(s) == IF s # "" /\ Ch(s, 1) \in {"+", "-"} THEN Drop(s, 1) ELSE s
Sign(s) == IF s # "" /\ Ch(s, 1) = "-" THEN -1 ELSE 1

\* A mutant of _to_int: 0 instead of None for text int() rejects.
to_int_or_zero(x) ==
    IF x # "" /\ AllDigits(Unsigned(Strip(x)))
    THEN Some(Sign(Strip(x)) * DigitsVal(Unsigned(Strip(x))))
    ELSE Some(0)

\* _to_int(x): int(str(x).strip()), None for "" and for text int() rejects.
to_int(x) ==
    LET s == Strip(x)
    IN  IF x # "" /\ AllDigits(Unsigned(s)) THEN Some(Sign(s) * DigitsVal(Unsigned(s)))
        ELSE None

\* The text float() accepts, within the model's alphabet: an optional sign,
\* digits, and at most one point with at most four places after it.
IsFloatText(u) ==
    LET dot == Occurrences(u, ".")
    IN  /\ Cardinality(dot) <= 1
        /\ \A i \in 1..Len(u) : Ch(u, i) \in Digits \cup {"."}
        /\ \E i \in 1..Len(u) : Ch(u, i) \in Digits
        /\ \A i \in dot : Len(u) - i <= 4

RECURSIVE ZeroPadRight(_, _)
ZeroPadRight(s, w) == IF Len(s) >= w THEN s ELSE ZeroPadRight(s \o "0", w)

\* _to_float(x): float(str(x).strip()), 0.0 for "" and for text float() rejects.
to_float(x) ==
    LET s == Strip(x)
        u == Unsigned(s)
        parts == Split(u, ".")
    IN  IF x # "" /\ IsFloatText(u)
        THEN Sign(s) * (DigitsVal(parts[1]) * Frac
                        + (IF Len(parts) = 2 THEN DigitsVal(ZeroPadRight(parts[2], 4)) ELSE 0))
        ELSE 0

\* _to_bool(x), x a text or None: (x or "").strip().lower() in {...}
to_bool(x) ==
    LET s == IF x.t = "str" THEN Lower(Strip(x.s)) ELSE ""
    IN  s \in {"1", "true", "yes", "y", "on"}

\* A mutant of _inc_invoice_number: the incremented number without its padding.
inc_invoice_number_unpadded(s) ==
    IF s = "" THEN "INV-1"
    ELSE LET runs == {i \in 1..Len(s) : \A j \in i..Len(s) : Ch(s, j) \in Digits}
         IN  IF runs = {} THEN s \o "-1"
             ELSE SubSeq(s, 1, Min(runs) - 1)
                      \o NatStr(DigitsVal(SubSeq(s, Min(runs), Len(s))) + 1)

\* _inc_invoice_number(s): re.search(r'(.*?)(\d+)$', s), for an s without
\* line breaks (the decoder's values have none).
inc_invoice_number(s) ==
    IF s = "" THEN "INV-1"
    ELSE LET n == Len(s)
             \* the start of the digit run that ends the string
             runs == {i \in 1..n : \A j \in i..n : Ch(s, j) \in Digits}
         IN  IF runs = {} THEN s \o "-1"
             ELSE LET i == Min(runs)
                      digits == SubSeq(s, i, n)
                  IN  SubSeq(s, 1, i - 1) \o ZeroPad(NatStr(DigitsVal(digits) + 1), Len(digits))

\* int(k.rsplit("_", 1)[1]) of _addr_list's sort key: the text after the last "_"
AddrSuffix(k) == Drop(k, RFind(k, "_", Len(k)))

\* The keys of enc that start with prefix, in the dict's order.
KeysWithPrefix(enc, prefix) == SelectSeq(enc.keys, LAMBDA k : StartsWith(k, prefix))

\* keys.sort(key=...) raises ValueError when a suffix is not a number.
addr_list_raises(enc, prefix) ==
    \E i \in DOMAIN KeysWithPrefix(enc, prefix) :
        ~AllDigits(AddrSuffix(KeysWithPrefix(enc, prefix)[i]))

\* A mutant of _addr_list: the values in the order of the keys in the payload.
addr_list_unsorted(enc, prefix) ==
    [n \in 1..Len(KeysWithPrefix(enc, prefix)) |->
        EncGet(enc, KeysWithPrefix(enc, prefix)[n], "")]

\* _addr_list(enc, prefix): the values in the (stable) order of the suffixes.
addr_list(enc, prefix) ==
    LET keys == KeysWithPrefix(enc, prefix)
        num(i) == DigitsVal(AddrSuffix(keys[i]))
        before(i, j) == num(i) < num(j) \/ (num(i) = num(j) /\ i < j)
        sorted == [n \in 1..Len(keys) |->
                      CHOOSE i \in 1..Len(keys) :
                          Cardinality({j \in 1..Len(keys) : before(j, i)}) = n - 1]
    IN  [n \in 1..Len(keys) |-> EncGet(enc, keys[sorted[n]], "")]

\* re.match(r'enc_item_(\d+)_', k): the item index of a key, or None
ItemIndex(k) ==
    LET j == SkipIn(k, 10, Digits)
    IN  IF StartsWith(k, "enc_item_") /\ j > 10 /\ j <= Len(k) /\ Ch(k, j) = "_"
        THEN Some(DigitsVal(SubSeq(k, 10, j - 1)))
        ELSE None

\* The phone / mobile clean-up of build_prof_from_payload.
OneLine(v) == Strip(Replace(Replace(v, "\n", " "), "\r", " "))

\* build_prof_from_payload(enc): the flat 'prof' dict.
build_prof_from_payload(enc) ==
    LET idxs == SortedSeq({ItemIndex(enc.keys[n])[1] :
                              n \in {m \in DOMAIN enc.keys : ItemIndex(enc.keys[m]) # None}})
        item(i) == LET pre == "enc_item_" \o IntStr(i) \o "_"
                   IN  [number             |-> IntStr(i),
                        basis              |-> EncGet(enc, pre \o "basis", ""),
                        description        |-> EncGet(enc, pre \o "description", ""),
                        qty_display        |-> EncGet(enc, pre \o "qty_display", ""),
                        rate_display       |-> EncGet(enc, pre \o "rate_display", ""),
                        line_total_display |-> EncGet(enc, pre \o "line_total_display", "")]
        flag(k) == to_bool(IF k \in DOMAIN enc.val THEN PyStr(enc.val[k]) ELSE PyNone)
    IN  [region           |-> EncGet(enc, "enc_region", ""),
         legal_name       |-> EncGet(enc, "enc_heading_name", ""),
         trading_name     |-> EncGet(enc, "enc_trading_name", ""),
         address_lines    |-> addr_list(enc, "enc_trading_address_line_"),
         email            |-> EncGet(enc, "enc_email", ""),
         phone            |-> OneLine(EncGet(enc, "enc_phone", "")),
         mobile           |-> OneLine(EncGet(enc, "enc_mobile", "")),
         company_number   |-> EncGet(enc, "enc_company_number", ""),
         vat_number       |-> EncGet(enc, "enc_vat_number", ""),
         tax_id           |-> EncGet(enc, "enc_tax_id", ""),
         contact_name     |-> EncGet(enc, "enc_bill_to_contact_name", ""),
         company_name     |-> EncGet(enc, "enc_bill_to_company_name", ""),
         client_address_lines |-> addr_list(enc, "enc_bill_to_address_line_"),
         client_email     |-> EncGet(enc, "enc_bill_to_email", ""),
         po_reference     |-> EncGet(enc, "enc_bill_to_po_reference", ""),
         notes            |-> EncGet(enc, "enc_bill_to_notes", ""),
         invoice_number   |-> inc_invoice_number(EncGet(enc, "enc_invoice_number", "")),
         invoice_date     |-> EncGet(enc, "enc_invoice_date", ""),
         terms_days       |-> EncGet(enc, "enc_terms_days", ""),
         currency         |-> EncGet(enc, "enc_currency", ""),
         tax_label_mode   |-> EncGet(enc, "enc_tax_label_mode", ""),
         tax_label_custom |-> EncGet(enc, "enc_tax_label_custom", ""),
         tax_rate         |-> EncGet(enc, "enc_tax_rate", ""),
         items            |-> [n \in 1..Len(idxs) |-> item(idxs[n])],
         accept_wise      |-> flag("enc_accept_wise"),
         wise_text        |-> EncGet(enc, "enc_wise_text", ""),
         accept_stripe    |-> flag("enc_accept_stripe"),
         stripe_text      |-> EncGet(enc, "enc_stripe_text", ""),
         accept_paypal    |-> flag("enc_accept_paypal"),
         paypal_text      |-> EncGet(enc, "enc_paypal_text", ""),
         accept_bank      |-> flag("enc_accept_bank"),
         bank_country     |-> EncGet(enc, "enc_bank_country", ""),
         bank_uk          |-> [account_name   |-> EncGet(enc, "enc_bank_uk_account_name", ""),
                               sort_code      |-> EncGet(enc, "enc_bank_uk_sort_code", ""),
                               account_number |-> EncGet(enc, "enc_bank_uk_account_number", ""),
                               iban           |-> EncGet(enc, "enc_bank_uk_iban", ""),
                               bic            |-> EncGet(enc, "enc_bank_uk_bic", "")],
         bank_us          |-> [account_name   |-> EncGet(enc, "enc_bank_us_account_name", ""),
                               routing_number |-> EncGet(enc, "enc_bank_us_routing_number", ""),
                               account_number |-> EncGet(enc, "enc_bank_us_account_number", ""),
                               ach_wire_notes |-> EncGet(enc, "enc_bank_us_ach_wire_notes", "")],
         footer_notes     |-> EncGet(enc, "enc_footer_notes", "")]

(***************************************************************************)
(* Snapshot encoder: _enc_scalar, _enc_pairs_from_state, payload_line.     *)
(***************************************************************************)
\* A mutant of _enc_scalar: the text without the escape of "&".
enc_scalar_unescaped(v) ==
    IF v.t = "none" THEN "NIL"
    ELSE IF v.t = "bool" THEN (IF v.b THEN "True" ELSE "False")
    ELSE LET s0 == IF v.t = "str" THEN v.s
                   ELSE IF v.t = "int" THEN IntStr(v.n)
                   ELSE FloatStr(v.x)
         IN  IF Strip(s0) # "" THEN s0 ELSE "NIL"

\* _enc_scalar(v)
enc_scalar(v) ==
    LET s == IF v.t = "none" THEN "NIL"
             ELSE IF v.t = "bool" THEN (IF v.b THEN "True" ELSE "False")
             ELSE LET s0 == IF v.t = "str" THEN v.s
                            ELSE IF v.t = "int" THEN IntStr(v.n)
                            ELSE FloatStr(v.x)
                  IN  IF Strip(s0) # "" THEN s0 ELSE "NIL"
    IN  Replace(s, "&", "&amp;")

Pair(k, v) == [k |-> k, v |-> v]

\* A mutant of the item loop: the blocks numbered from 0.
ItemPairs_zero_based(i, it) ==
    LET pre == "enc_item_" \o IntStr(i - 1) \o "_"
        num(disp, raw) == IF disp \in DOMAIN it THEN PyStr(it[disp])
                          ELSE IF raw \in DOMAIN it THEN PyFloat(it[raw])
                          ELSE PyNone
    IN  << Pair(pre \o "number", PyInt(i - 1)),
           Pair(pre \o "basis", GetStr(it, "basis")),
           Pair(pre \o "description", GetStr(it, "description")),
           Pair(pre \o "qty_display", num("qty_display", "qty")),
           Pair(pre \o "rate_display", num("rate_display", "rate")),
           Pair(pre \o "line_total_display", GetStr(it, "line_total_display")) >>

\* The six pairs of item i (one-based).
ItemPairs(i, it) ==
    LET pre == "enc_item_" \o IntStr(i) \o "_"
        num(disp, raw) == IF disp \in DOMAIN it THEN PyStr(it[disp])
                          ELSE IF raw \in DOMAIN it THEN PyFloat(it[raw])
                          ELSE PyNone
    IN  << Pair(pre \o "number", PyInt(i)),
           Pair(pre \o "basis", GetStr(it, "basis")),
           Pair(pre \o "description", GetStr(it, "description")),
           Pair(pre \o "qty_display", num("qty_display", "qty")),
           Pair(pre \o "rate_display", num("rate_display", "rate")),
           Pair(pre \o "line_total_display", GetStr(it, "line_total_display")) >>

RECURSIVE AllItemPairs(_, _)
AllItemPairs(items, i) ==
    IF i > Len(items) THEN <<>> ELSE ItemPairs(i, items[i]) \o AllItemPairs(items, i + 1)

\* A mutant of the choice of the bank details: the stored details of either
\* country, whichever country is selected.
bank_of_either(pay, country, field) == pay[field]

\* uk = (pay.get("bank_uk") or {}) if pay.get("bank_country") == "UK" else {}
\* and the same for us: the details of the selected country, {} for the other.
bank_of(pay, country, field) == IF pay.bank_country = country THEN pay[field] ELSE <<>>

\* _enc_pairs_from_state: the (key, value) pairs in their fixed order.
enc_pairs_from_state(prof, cli, inv, items, pay, inv_date_str, due_str) ==
    LET addr(d, pre) ==
            LET lines == GetOr(d, "address_lines", <<>>)
            IN  [i \in 1..Len(lines) |-> Pair(pre \o IntStr(i - 1), PyStr(lines[i]))]
        uk == bank_of(pay, "UK", "bank_uk")
        us == bank_of(pay, "US", "bank_us")
    IN  << Pair("enc_region", GetStr(prof, "region")),
           Pair("enc_heading_name", GetStr(prof, "legal_name")),
           Pair("enc_trading_name", GetStr(prof, "trading_name")) >>
        \o addr(prof, "enc_trading_address_line_") \o
        << Pair("enc_email", GetStr(prof, "email")),
           Pair("enc_phone", GetStr(prof, "phone")),
           Pair("enc_mobile", GetStr(prof, "mobile")),
           Pair("enc_company_number", GetStr(prof, "company_number")),
           Pair("enc_vat_number", GetStr(prof, "vat_number")),
           Pair("enc_tax_id", GetStr(prof, "tax_id")),
           Pair("enc_bill_to_contact_name", GetStr(cli, "contact_name")),
           Pair("enc_bill_to_company_name", GetStr(cli, "company_name")) >>
        \o addr(cli, "enc_bill_to_address_line_") \o
        << Pair("enc_bill_to_email", GetStr(cli, "email")),
           Pair("enc_bill_to_po_reference", GetStr(cli, "po_reference")),
           Pair("enc_bill_to_notes", GetStr(cli, "notes")),
           Pair("enc_invoice_number", GetStr(inv, "invoice_number")),
           Pair("enc_invoice_date", PyStr(inv_date_str)),
           Pair("enc_terms_days", PyOptInt(inv.terms_days)),
           Pair("enc_currency", GetStr(inv, "currency")),
           Pair("enc_tax_label_mode", GetStr(inv, "tax_label_mode")),
           Pair("enc_tax_label_custom", GetStr(inv, "tax_label_custom")),
           Pair("enc_tax_rate", PyFloat(inv.tax_rate)),
           Pair("enc_due_date", PyStr(due_str)) >>
        \o AllItemPairs(items, 1) \o
        << Pair("enc_accept_wise", PyBool(pay.accept_wise)),
           Pair("enc_wise_text", GetStr(pay, "wise_text")),
           Pair("enc_accept_stripe", PyBool(pay.accept_stripe)),
           Pair("enc_stripe_text", GetStr(pay, "stripe_text")),
           Pair("enc_accept_paypal", PyBool(pay.accept_paypal)),
           Pair("enc_paypal_text", GetStr(pay, "paypal_text")),
           Pair("enc_accept_bank", PyBool(pay.accept_bank)),
           Pair("enc_bank_country", GetStr(pay, "bank_country")),
           Pair("enc_bank_uk_account_name", GetStr(uk, "account_name")),
           Pair("enc_bank_uk_sort_code", GetStr(uk, "sort_code")),
           Pair("enc_bank_uk_account_number", GetStr(uk, "account_number")),
           Pair("enc_bank_uk_iban", GetStr(uk, "iban")),
           Pair("enc_bank_uk_bic", GetStr(uk, "bic")),
           Pair("enc_bank_us_account_name", GetStr(us, "account_name")),
           Pair("enc_bank_us_routing_number", GetStr(us, "routing_number")),
           Pair("enc_bank_us_account_number", GetStr(us, "account_number")),
           Pair("enc_bank_us_ach_wire_notes", GetStr(us, "ach_wire_notes")),
           Pair("enc_footer_notes", GetStr(pay, "footer_notes")) >>

\* build_pdf_bytes, the payload: inv_date_str, due_str, the pairs, and
\* payload_line = "&amp;".join(f"{k}={_enc_scalar(v)}" ...)
payload_line_of(ss) ==
    LET prof == ss.profile
        inv  == ss.invoice
        inv_region == IF GetOr(prof, "region", "") = "" THEN "UK" ELSE prof.region
        inv_date_str == format_region_date(inv.invoice_date, inv_region)
        due_str == IF inv.terms_days = None THEN ""
                   ELSE format_region_date(
                            compute_due_date(inv.invoice_date, inv.terms_days[1]), inv_region)
        pairs == enc_pairs_from_state(prof, ss.client, inv, ss.line_items, ss.payments,
                                      inv_date_str, due_str)
    IN  Join("&amp;", [i \in 1..Len(pairs) |-> pairs[i].k \o "=" \o enc_scalar(pairs[i].v)])

(***************************************************************************)
(* The wizard's session state.                                             *)
(***************************************************************************)
\* date.today(), on the day of the run
Today == Date(2025, 11, 9)

BlankBankUk == [account_name |-> "", sort_code |-> "", account_number |-> "",
                iban |-> "", bic |-> ""]
BlankBankUs == [account_name |-> "", routing_number |-> "", account_number |-> "",
                ach_wire_notes |-> ""]

\* ensure_session(): the state of a new session
ensure_session ==
    [profile |-> [legal_name |-> "", trading_name |-> "", address_lines |-> <<"">>,
                  email |-> "", phone |-> "", mobile |-> "", company_number |-> "",
                  vat_number |-> "", tax_id |-> "", region |-> ""],
     client  |-> [contact_name |-> "", company_name |-> "", address_lines |-> <<"">>,
                  email |-> "", po_reference |-> "", notes |-> ""],
     invoice |-> [invoice_number |-> "", invoice_date |-> Today, terms_days |-> None,
                  currency |-> "GBP", tax_label_mode |-> "None",
                  tax_label_custom |-> "", tax_rate |-> 0],
     line_items |-> <<>>,
     payments |-> [accept_wise |-> FALSE, accept_stripe |-> FALSE,
                   accept_paypal |-> FALSE, accept_bank |-> FALSE,
                   paypal_text |-> "", stripe_text |-> "", wise_text |-> "",
                   bank_country |-> "UK", bank_uk |-> BlankBankUk,
                   bank_us |-> BlankBankUs, footer_notes |-> ""],
     your_addr_count |-> 1,
     client_addr_count |-> 1]

Max(a, b) == IF a >= b THEN a ELSE b

NoPayloadMessage == "No embedded payload found in this PDF."
FailedMessage == "Failed to pre-populate from PDF"
ParsedMessage == "Parsed payload. Review (optional) and click Continue to apply."

\* step0, the body of "if uploaded is not None" once the payload line, the
\* dict enc and the flat dict prof are known: the session after the upload and
\* the message the page shows.
step0_apply(ss, line, enc, prof) ==
        IF line = "" THEN [session |-> ss, message |-> NoPayloadMessage]
        ELSE IF \/ addr_list_raises(enc, "enc_trading_address_line_")
                \/ addr_list_raises(enc, "enc_bill_to_address_line_")
        THEN [session |-> ss, message |-> FailedMessage]
        ELSE [message |-> ParsedMessage, session |-> [ss EXCEPT
            !.client = [contact_name  |-> GetOr(prof, "contact_name", ""),
                        company_name  |-> GetOr(prof, "company_name", ""),
                        address_lines |-> prof.client_address_lines,
                        email         |-> GetOr(prof, "client_email", ""),
                        po_reference  |-> GetOr(prof, "client_po_reference", ""),
                        notes         |-> GetOr(prof, "client_notes", "")],
            !.invoice = [@ EXCEPT
                !.invoice_number   = GetOr(prof, "invoice_number", ""),
                !.invoice_date     = parse_invoice_date(GetOr(prof, "invoice_date", ""),
                                                        ss.invoice.invoice_date),
                !.terms_days       = to_int(prof.terms_days),
                !.currency         = GetOr(prof, "currency", ss.invoice.currency),
                !.tax_label_mode   = GetOr(prof, "tax_label_mode", ss.invoice.tax_label_mode),
                !.tax_label_custom = GetOr(prof, "tax_label_custom", ""),
                !.tax_rate         = to_float(prof.tax_rate)],
            !.line_items = [n \in 1..Len(prof.items) |->
                [basis       |-> GetOr(prof.items[n], "basis", ""),
                 description |-> GetOr(prof.items[n], "description", ""),
                 qty         |-> to_float(prof.items[n].qty_display),
                 rate        |-> to_float(prof.items[n].rate_display)]],
            !.payments = [@ EXCEPT
                !.accept_wise   = prof.accept_wise,
                !.wise_text     = GetOr(prof, "wise_text", ""),
                !.accept_stripe = prof.accept_stripe,
                !.stripe_text   = GetOr(prof, "stripe_text", ""),
                !.accept_paypal = prof.accept_paypal,
                !.paypal_text   = GetOr(prof, "paypal_text", ""),
                !.accept_bank   = prof.accept_bank,
                !.bank_country  = GetOr(prof, "bank_country", ss.payments.bank_country),
                !.bank_uk       = prof.bank_uk,
                !.bank_us       = prof.bank_us,
                !.footer_notes  = GetOr(prof, "footer_notes", "")],
            !.your_addr_count   = Max(1, Len(prof.address_lines)),
            !.client_addr_count = Max(1, Len(prof.client_address_lines)),
            !.profile = prof]]

\* payload_line = extract_enc_payload_text_from_pdf(pdf_bytes), then
\* enc = parse_enc_payload_to_dict(payload_line) and
\* prof = build_prof_from_payload(enc), each computed once.
step0_built(ss, line, enc) == step0_apply(ss, line, enc, build_prof_from_payload(enc))
step0_parsed(ss, line) == step0_built(ss, line, parse_enc_payload_to_dict(line))
step0_upload(ss, raw) == step0_parsed(ss, extract_enc_payload_text_from_pdf(raw))

\* The session alone.
step0_prefill(ss, raw) == step0_upload(ss, raw).session

(***************************************************************************)
(* What a page displays.                                                   *)
(***************************************************************************)
NothingShown == [totals |-> None, preview_lines |-> <<>>, pdf_lines |-> <<>>,
                 message |-> ""]

\* inv.get("tax_rate") or 0.0
TaxRateOf(ss) == ss.invoice.tax_rate

\* step3, "if items:": the totals written under the item list.
step3_shown(ss) ==
    [NothingShown EXCEPT
        !.totals = IF ss.line_items = <<>> THEN None
                   ELSE Some(compute_totals(ss.line_items, TaxRateOf(ss)))]

\* step5: render_preview_html (the totals box and the preview table) and
\* build_pdf_bytes (the PDF table), both rendered on every run of the page.
step5_shown(ss) ==
    [NothingShown EXCEPT
        !.totals        = Some(compute_totals(ss.line_items, TaxRateOf(ss))),
        !.preview_lines = [i \in 1..Len(ss.line_items) |-> preview_line_total(ss.line_items[i])],
        !.pdf_lines     = [i \in 1..Len(ss.line_items) |-> pdf_line_total(ss.line_items[i])]]

\* render_preview_html, "if tax_label:": TRUE when the totals box of the
\* preview has a tax row between Subtotal and Total.
preview_tax_row(ss) ==
    LET tl_mode == ss.invoice.tax_label_mode
        tax_label == IF tl_mode = "Custom"
                     THEN (IF Strip(ss.invoice.tax_label_custom) # ""
                           THEN Strip(ss.invoice.tax_label_custom) ELSE "Tax")
                     ELSE IF tl_mode = "None" THEN "" ELSE tl_mode
    IN  tax_label # ""

\* build_pdf_bytes, 'if tl_mode != "None":': the same for the totals table of
\* the PDF.
pdf_tax_row(ss) == ss.invoice.tax_label_mode # "None"

\* step4, "Continue to Step 5": TRUE when the handler collects an error.
step4_errors(pay) ==
    LET filled(v) == Strip(v) # ""
        uk == pay.bank_uk
        us == pay.bank_us
        has_any == \/ pay.accept_wise \/ pay.accept_stripe \/ pay.accept_paypal
                   \/ pay.accept_bank \/ filled(pay.footer_notes)
    IN  \/ pay.accept_wise /\ ~filled(pay.wise_text)
        \/ pay.accept_stripe /\ ~filled(pay.stripe_text)
        \/ pay.accept_paypal /\ ~filled(pay.paypal_text)
        \/ /\ pay.accept_bank
           /\ IF pay.bank_country = "UK"
              THEN ~(/\ filled(uk.account_name)
                     /\ \/ filled(uk.sort_code) /\ filled(uk.account_number)
                        \/ filled(uk.iban) /\ filled(uk.bic))
              ELSE ~(filled(us.account_name) /\ filled(us.routing_number)
                     /\ filled(us.account_number))
        \/ ~has_any

(***************************************************************************)
(* Step 3: the item list and the tax rate.                                 *)
(***************************************************************************)
\* The values typed into the number inputs of Step 3 (floats, in
\* ten-thousandths), and the hours and minutes of the two hourly bases.
QtyInputs  == {10000, 30000}
RateInputs == {100, 1000, 600000}
HourInputs == {0, 1}
MinuteInputs == {20, 30}
TaxRateInputs == {0, 175000, 200000, 1000000}

\* qty_value = h + (m / 60.0).  The float is kept to its first four decimals;
\* d2 of a non-negative value depends on no later digit than the third, since
\* what follows a third digit 5 can only push the value further up.
hours_qty(h, m) == h * Frac + (m * Frac) \div 60

\* The session of a user who has reached Step 3 with an invoice number typed
\* in and a footer note set.
Step3Session ==
    [ensure_session EXCEPT !.invoice.invoice_number = "INV-001",
                           !.payments.footer_notes = "Thanks"]

InitMoney ==
    /\ pc = "step3"
    /\ session = Step3Session
    /\ shown = step3_shown(Step3Session)
    /\ exported = None
    /\ embedded = ""
    /\ pdf_text = ""
    /\ quant = [x |-> 0, out |-> None]

\* step3, "Add Item", then the rerun of the page.
AddItemOf(basis, qty_value, rate) ==
    /\ pc = "step3"
    /\ Len(session.line_items) < MaxItems
    /\ session' = [session EXCEPT !.line_items =
                      Append(@, [basis |-> basis, description |-> "work",
                                 qty |-> qty_value, rate |-> rate])]
    /\ shown' = step3_shown(session')
    /\ UNCHANGED <<pc, exported, embedded, pdf_text, quant>>

AddItem ==
    \E rate \in RateInputs :
        \/ \E h \in HourInputs, m \in MinuteInputs :
               AddItemOf("per hour", hours_qty(h, m), rate)
        \/ \E q \in QtyInputs : AddItemOf("per job", q, rate)

\* step3, "Remove" on row idx_, then the rerun of the page.
RemoveItem ==
    \E idx \in 1..Len(session.line_items) :
        /\ pc = "step3"
        /\ session' = [session EXCEPT !.line_items =
                          SubSeq(@, 1, idx - 1) \o SubSeq(@, idx + 1, Len(@))]
        /\ shown' = step3_shown(session')
        /\ UNCHANGED <<pc, exported, embedded, pdf_text, quant>>

\* step3, the "Tax Rate (%)" number input (0.0 to 100.0).
SetTaxRate ==
    \E r \in TaxRateInputs :
        /\ pc = "step3"
        /\ r # session.invoice.tax_rate
        /\ session' = [session EXCEPT !.invoice.tax_rate = r]
        /\ shown' = step3_shown(session')
        /\ UNCHANGED <<pc, exported, embedded, pdf_text, quant>>

\* step3, another choice in the "Tax Label" selectbox, then the rerun of the
\* page: the custom label is cleared, the tax rate stays.
SetTaxLabel ==
    \E mode \in {"None", "VAT"} :
        /\ pc = "step3"
        /\ mode # session.invoice.tax_label_mode
        /\ session' = [session EXCEPT !.invoice.tax_label_mode = mode,
                                      !.invoice.tax_label_custom =
                                          IF mode # "Custom" THEN "" ELSE @]
        /\ shown' = step3_shown(session')
        /\ UNCHANGED <<pc, exported, embedded, pdf_text, quant>>

\* step3, "Continue to Step 4" with payment terms of 30 days typed in.
Step3Continue ==
    /\ pc = "step3"
    /\ Strip(session.invoice.invoice_number) # ""
    /\ session.line_items # <<>>
    /\ session' = [session EXCEPT !.invoice.terms_days = Some(30)]
    /\ pc' = "step4"
    /\ shown' = NothingShown
    /\ UNCHANGED <<exported, embedded, pdf_text, quant>>

\* step4, "Continue to Step 5": the preview and the PDF are rendered.
Step4Continue ==
    /\ pc = "step4"
    /\ ~step4_errors(session.payments)
    /\ pc' = "step5"
    /\ shown' = step5_shown(session)
    /\ UNCHANGED <<session, exported, embedded, pdf_text, quant>>

\* step5, "Return to Step 3".
ReturnToStep3 ==
    /\ pc = "step5"
    /\ pc' = "step3"
    /\ shown' = step3_shown(session)
    /\ UNCHANGED <<session, exported, embedded, pdf_text, quant>>

NextMoney ==
    \/ AddItem
    \/ RemoveItem
    \/ SetTaxRate
    \/ SetTaxLabel
    \/ Step3Continue
    \/ Step4Continue
    \/ ReturnToStep3

SpecMoney == InitMoney /\ [][NextMoney]_vars

(***************************************************************************)
(* d2 on its own.                                                          *)
(***************************************************************************)
InitD2 ==
    /\ pc = "d2"
    /\ session = ensure_session
    /\ shown = NothingShown
    /\ exported = None
    /\ embedded = ""
    /\ pdf_text = ""
    /\ \E x \in -MaxAbsInput..MaxAbsInput : quant = [x |-> x, out |-> None]

\* One call of d2 on the drawn value.
CallD2 ==
    /\ pc = "d2"
    /\ quant.out = None
    /\ quant' = [quant EXCEPT !.out = Some(d2(quant.x))]
    /\ UNCHANGED <<pc, session, shown, exported, embedded, pdf_text>>

\* d2 applied to the Decimal the first call returned: d2(d2(x)).
CallD2Again ==
    /\ pc = "d2"
    /\ DOMAIN quant = {"x", "out"}
    /\ quant.out # None
    /\ quant' = [x |-> quant.x, out |-> quant.out,
                 again |-> d2(quant.out[1] * (Frac \div DEC_QUANT))]
    /\ UNCHANGED <<pc, session, shown, exported, embedded, pdf_text>>

NextD2 ==
    \/ CallD2
    \/ CallD2Again

SpecD2 == InitD2 /\ [][NextD2]_vars

(***************************************************************************)
(* The helpers of the codec on their own: _inc_invoice_number on the       *)
(* invoice numbers the decoder can hand it (text without line breaks),     *)
(* _enc_scalar on the values of a snapshot with the way back through the   *)
(* extractor and the parser, and _to_bool on enc.get(...) of a flag.       *)
(***************************************************************************)
InitHelpers ==
    /\ pc = "helpers"
    /\ session = ensure_session
    /\ shown = NothingShown
    /\ exported = None
    /\ embedded = ""
    /\ pdf_text = ""
    /\ \/ \E s \in {"", "INV-00209", "2025-9", "Invoice", "X-99", "INV-1", "INV-009",
                    "9", "99", "007", "0", "00", "999", "INV-1a", "A1B2", "1-",
                    "INV 12", "INV-0999", "12ab34", "-5", "INV-", "No. 099"} :
              quant = [fn |-> "inc", x |-> s, out |-> None]
       \/ \E v \in {PyNone, PyBool(TRUE), PyBool(FALSE)}
                   \cup {PyStr(t) : t \in {"", " ", "\t ", "NIL", "nil", "Nil", " Nil ",
                                           "NILS", "N I L", "None", "False", "0", "Acme",
                                           " padded ", "per hour", "Smith & Sons", "&",
                                           "a&b&c", "&amp;", "x&enc_region=EU"}}
                   \cup {PyInt(n) : n \in {-1, 0, 1, 12, 30}}
                   \cup {PyFloat(x) : x \in {-5000, 0, 3333, 15000, 200000, 400000}} :
              quant = [fn |-> "enc", x |-> v, out |-> None]
       \/ \E v \in {PyNone}
                   \cup {PyStr(t) : t \in {"True", "true", "TRUE", "1", "yes", "Yes", "on",
                                           "ON", " on ", " true\t", "y", "Y", "False",
                                           "false", "0", "no", "n", "off", "", " ", "t",
                                           "2", "01", "truee", "yes please", "enabled",
                                           "NIL"}} :
              quant = [fn |-> "bool", x |-> v, out |-> None]
       \/ \E dt \in {Date(2025, 11, 9), Date(2025, 12, 25), Date(2024, 2, 29),
                       Date(2025, 1, 1), Date(2025, 7, 7), Date(2025, 3, 12)},
             region \in {"UK", "US", "EU", ""} :
              quant = [fn |-> "date", x |-> [invoice_date |-> dt, region |-> region],
                       out |-> None]
       \/ \E dt \in {Date(2025, 1, 31), Date(2024, 2, 28), Date(2023, 2, 28),
                       Date(2025, 12, 31), Date(2025, 11, 9), Date(2100, 2, 1)},
             n \in {-3, 0, 1, 2, 3, 30, 60, 90} :
              quant = [fn |-> "due", x |-> [invoice_date |-> dt, terms_days |-> n],
                       out |-> None]

\* build_prof_from_payload, "invoice_number": _inc_invoice_number(...)
CallIncInvoiceNumber ==
    /\ pc = "helpers"
    /\ quant.fn = "inc"
    /\ quant.out = None
    /\ quant' = [quant EXCEPT !.out = Some(inc_invoice_number(quant.x))]
    /\ UNCHANGED <<pc, session, shown, exported, embedded, pdf_text>>

\* build_pdf_bytes, payload_line: f"{k}={_enc_scalar(v)}" for one pair; the
\* text layer of the file holds it with "&amp;" kept or turned into "&".
CallEncScalar ==
    /\ pc = "helpers"
    /\ quant.fn = "enc"
    /\ quant.out = None
    /\ quant' = [quant EXCEPT !.out = Some(enc_scalar(quant.x))]
    /\ embedded' = "enc_footer_notes=" \o enc_scalar(quant.x)
    /\ pdf_text' \in {embedded', html_unescape(embedded')}
    /\ UNCHANGED <<pc, session, shown, exported>>

\* The way back: the extractor and parse_enc_payload_to_dict on that text,
\* and enc.get("enc_footer_notes", "").
DecodeScalar ==
    /\ pc = "helpers"
    /\ quant.fn = "enc"
    /\ DOMAIN quant = {"fn", "x", "out"}
    /\ quant.out # None
    /\ quant' = [fn |-> "enc", x |-> quant.x, out |-> quant.out,
                 back |-> EncGet(parse_enc_payload_to_dict(
                                     extract_enc_payload_text_from_pdf(pdf_text)),
                                 "enc_footer_notes", "")]
    /\ UNCHANGED <<pc, session, shown, exported, embedded, pdf_text>>

\* build_prof_from_payload, "accept_wise": _to_bool(enc.get("enc_accept_wise"))
CallToBool ==
    /\ pc = "helpers"
    /\ quant.fn = "bool"
    /\ quant.out = None
    /\ quant' = [quant EXCEPT !.out = Some(to_bool(quant.x))]
    /\ UNCHANGED <<pc, session, shown, exported, embedded, pdf_text>>

\* build_pdf_bytes, inv_date_str: format_region_date(inv["invoice_date"],
\* prof.get("region") or "UK"), the text written under enc_invoice_date.
CallFormatRegionDate ==
    /\ pc = "helpers"
    /\ quant.fn = "date"
    /\ quant.out = None
    /\ quant' = [quant EXCEPT !.out = Some(format_region_date(
                     quant.x.invoice_date,
                     IF quant.x.region = "" THEN "UK" ELSE quant.x.region))]
    /\ UNCHANGED <<pc, session, shown, exported, embedded, pdf_text>>

\* step0, "invoice_date": _parse_invoice_date(prof.get("invoice_date", ""))
\* on that text, in a session whose invoice date is today's.
ParseInvoiceDate ==
    /\ pc = "helpers"
    /\ quant.fn = "date"
    /\ DOMAIN quant = {"fn", "x", "out"}
    /\ quant.out # None
    /\ quant' = [fn |-> "date", x |-> quant.x, out |-> quant.out,
                 back |-> parse_invoice_date(quant.out[1], session.invoice.invoice_date)]
    /\ UNCHANGED <<pc, session, shown, exported, embedded, pdf_text>>

\* build_pdf_bytes, due_str: compute_due_date(inv["invoice_date"],
\* int(inv["terms_days"])) for terms that are set.
CallComputeDueDate ==
    /\ pc = "helpers"
    /\ quant.fn = "due"
    /\ quant.out = None
    /\ quant' = [quant EXCEPT !.out = Some(compute_due_date(quant.x.invoice_date,
                                                            quant.x.terms_days))]
    /\ UNCHANGED <<pc, session, shown, exported, embedded, pdf_text>>

NextHelpers ==
    \/ CallIncInvoiceNumber
    \/ CallEncScalar
    \/ DecodeScalar
    \/ CallToBool
    \/ CallFormatRegionDate
    \/ ParseInvoiceDate
    \/ CallComputeDueDate

SpecHelpers == InitHelpers /\ [][NextHelpers]_vars

(***************************************************************************)
(* Export at Step 5, and the upload of the exported PDF at Step 0.         *)
(***************************************************************************)
\* A completed Step-5 session: every required field filled in, every value
\* free of surrounding whitespace.  The arguments are the fields varied below.
FilledSession(region, legal_name, po_reference, description, footer_notes) ==
    [profile |-> [legal_name |-> legal_name, trading_name |-> "Acme Audio",
                  address_lines |-> <<"1 High St", "Leeds">>,
                  email |-> "me@acme.uk", phone |-> "0113 496", mobile |-> "",
                  company_number |-> "0123",
                  vat_number |-> IF region = "US" THEN "" ELSE "GB 99",
                  tax_id |-> IF region = "US" THEN "98-76" ELSE "",
                  region |-> region],
     client  |-> [contact_name |-> "Jo", company_name |-> "Client Co",
                  address_lines |-> <<"2 Low Rd">>, email |-> "jo@client.co",
                  po_reference |-> po_reference, notes |-> ""],
     invoice |-> [invoice_number |-> "INV-009", invoice_date |-> Today,
                  terms_days |-> Some(30), currency |-> "GBP",
                  tax_label_mode |-> "VAT", tax_label_custom |-> "",
                  tax_rate |-> 20 * Frac],
     line_items |-> << [basis |-> "per hour", description |-> description,
                        qty |-> 15000, rate |-> 40 * Frac] >>,
     payments |-> [accept_wise |-> FALSE, accept_stripe |-> FALSE,
                   accept_paypal |-> FALSE, accept_bank |-> TRUE,
                   paypal_text |-> "", stripe_text |-> "", wise_text |-> "",
                   bank_country |-> "UK",
                   bank_uk |-> [account_name |-> "Acme", sort_code |-> "12-34-56",
                                account_number |-> "12345678", iban |-> "", bic |-> ""],
                   bank_us |-> BlankBankUs, footer_notes |-> footer_notes],
     your_addr_count |-> 2,
     client_addr_count |-> 1]

Regions       == {"UK", "US"}
LegalNames    == {"Acme", "Smith & Sons"}
PoReferences  == {"", "PO7"}
Descriptions  == {"editing", "a&enc_tax_rate=50"}
FooterNotes   == {"Thanks", "x&enc_region=EU"}

InitCodec ==
    /\ pc = "step5"
    /\ \E r \in Regions, n \in LegalNames, po \in PoReferences,
          d \in Descriptions, f \in FooterNotes :
           session = FilledSession(r, n, po, d, f)
    /\ shown = step5_shown(session)
    /\ exported = None
    /\ embedded = ""
    /\ pdf_text = ""
    /\ quant = [x |-> 0, out |-> None]

\* step5, "Download PDF": build_pdf_bytes puts payload_line into a Paragraph
\* of the document.  What extract_text later recovers from the file is the
\* line on one row, with its "&amp;" either kept or already turned into "&".
DownloadPdf ==
    /\ pc = "step5"
    /\ exported = None
    /\ ~step4_errors(session.payments)
    /\ exported' = Some(session)
    /\ embedded' = payload_line_of(session)
    /\ pdf_text' \in {embedded', html_unescape(embedded')}
    /\ UNCHANGED <<pc, session, shown, quant>>

\* A later visit: main() calls ensure_session() on an empty session state
\* and the user passes the access page to Step 0.
NewSession ==
    /\ pc = "step5"
    /\ exported # None
    /\ session' = ensure_session
    /\ pc' = "step0"
    /\ shown' = NothingShown
    /\ UNCHANGED <<exported, embedded, pdf_text, quant>>

\* step0 with a file in the uploader.
Step0Upload ==
    /\ pc = "step0"
    /\ shown.message = ""
    /\ LET out == step0_upload(session, pdf_text)
       IN  /\ session' = out.session
           /\ shown' = [NothingShown EXCEPT !.message = out.message]
    /\ UNCHANGED <<pc, exported, embedded, pdf_text, quant>>

\* step0, "Continue".
Step0Continue ==
    /\ pc = "step0"
    /\ pc' = "step1"
    /\ shown' = NothingShown
    /\ UNCHANGED <<session, exported, embedded, pdf_text, quant>>

\* A mutant of the decode: it empties the live line items before it builds
\* the items of the payload.
DecodePayload_in_place ==
    /\ pc = "step0"
    /\ shown.message = ParsedMessage
    /\ quant.out = None
    /\ quant' = [quant EXCEPT !.out = Some(build_prof_from_payload(parse_enc_payload_to_dict(
                                  extract_enc_payload_text_from_pdf(pdf_text))))]
    /\ session' = [session EXCEPT !.line_items = <<>>]
    /\ UNCHANGED <<pc, shown, exported, embedded, pdf_text>>

\* parse_enc_payload_to_dict and build_prof_from_payload called on the
\* payload line of the file again, while the session holds the prefill: the
\* two functions read their argument and nothing of st.session_state.
DecodePayload ==
    /\ pc = "step0"
    /\ shown.message = ParsedMessage
    /\ quant.out = None
    /\ quant' = [quant EXCEPT !.out = Some(build_prof_from_payload(parse_enc_payload_to_dict(
                                  extract_enc_payload_text_from_pdf(pdf_text))))]
    /\ UNCHANGED <<pc, session, shown, exported, embedded, pdf_text>>

NextCodec ==
    \/ DownloadPdf
    \/ NewSession
    \/ Step0Upload
    \/ Step0Continue
    \/ DecodePayload

SpecCodec == InitCodec /\ [][NextCodec]_vars

(***************************************************************************)
(* Step 1 and Step 2: the region, the VAT number or the tax id, the forms, *)
(* then the export, a new session and the upload of the exported file.     *)
(***************************************************************************)
\* d[k] = v on a dict, and d.pop(k, None)
DictSet(d, k, v) == [j \in DOMAIN d \cup {k} |-> IF j = k THEN v ELSE d[j]]
DictPop(d, k) == [j \in DOMAIN d \ {k} |-> d[j]]

\* The label the region selectbox shows for the region of the profile
\* ("Select..." stands for the label of index 0).
RegionLabel(region) == IF region = "" THEN "Select..." ELSE region

\* st.session_state.get("_prev_region") once step1 has been rendered: the
\* first render of the page stores the label it shows.
prev_region(ss) ==
    IF "_prev_region" \in DOMAIN ss THEN ss["_prev_region"]
    ELSE RegionLabel(ss.profile.region)

\* draw_address_inputs_in_form: the lines cut or padded to the count.
address_inputs(lines, count) ==
    [n \in 1..count |-> IF n <= Len(lines) THEN lines[n] ELSE ""]

\* any((l or "").strip() for l in lines)
AnyLine(lines) == \E n \in DOMAIN lines : Strip(lines[n]) # ""

InitRegion ==
    /\ pc = "step5"
    /\ \E r \in {"UK", "US", "EU"}, f \in {"Thanks", "x&enc_tax_id=99"} :
           session = DictSet(FilledSession(r, "Acme", "", "editing", f), "_prev_region", r)
    /\ shown = step5_shown(session)
    /\ exported = None
    /\ embedded = ""
    /\ pdf_text = ""
    /\ quant = [x |-> 0, out |-> None]

\* step5, "Return to Step 1".
ReturnToStep1 ==
    /\ pc = "step5"
    /\ pc' = "step1"
    /\ shown' = NothingShown
    /\ UNCHANGED <<session, exported, embedded, pdf_text, quant>>

\* step1, another choice in the region selectbox: the rerun of the page up
\* to the form.
Step1SelectRegion ==
    \E region \in {"Select...", "UK", "US", "EU"} :
        /\ pc = "step1"
        /\ region # RegionLabel(session.profile.region)
        /\ LET chosen == [session.profile EXCEPT
                             !.region = IF region = "Select..." THEN "" ELSE region]
               kept   == IF prev_region(session) = region THEN chosen
                         ELSE IF region = "US" THEN DictPop(chosen, "vat_number")
                         ELSE IF region \in {"UK", "EU"} THEN DictPop(chosen, "tax_id")
                         ELSE chosen
           IN  session' = DictSet([session EXCEPT !.profile = kept], "_prev_region", region)
        /\ UNCHANGED <<pc, shown, exported, embedded, pdf_text, quant>>

\* step1, "Continue to Step 2": the form writes its inputs to the profile
\* (the VAT number for UK and EU, the tax id for US), then the checks.
Step1Continue ==
    \E number \in {"", "N-1"} :
        /\ pc = "step1"
        /\ session.profile.region # ""
        /\ LET region == session.profile.region
               lines  == address_inputs(session.profile.address_lines,
                                        session.your_addr_count)
               prof   == DictSet([session.profile EXCEPT !.address_lines = lines],
                                 IF region = "US" THEN "tax_id" ELSE "vat_number", number)
           IN  /\ session' = DictSet([session EXCEPT !.profile = prof],
                                     "_prev_region", prev_region(session))
               /\ pc' = IF /\ Strip(prof.email) # ""
                           /\ Strip(prof.legal_name) # "" \/ Strip(prof.trading_name) # ""
                           /\ AnyLine(lines)
                        THEN "step2" ELSE "step1"
        /\ UNCHANGED <<shown, exported, embedded, pdf_text, quant>>

\* step2, "Continue to Step 3": the form writes its inputs to the client,
\* then the checks.
Step2Continue ==
    /\ pc = "step2"
    /\ LET lines == address_inputs(session.client.address_lines, session.client_addr_count)
       IN  /\ session' = [session EXCEPT !.client.address_lines = lines]
           /\ pc' = IF /\ \/ Strip(session.client.contact_name) # ""
                           \/ Strip(session.client.company_name) # ""
                       /\ AnyLine(lines)
                    THEN "step3" ELSE "step2"
           /\ shown' = IF pc' = "step3" THEN step3_shown(session') ELSE NothingShown
    /\ UNCHANGED <<exported, embedded, pdf_text, quant>>

NextRegion ==
    \/ ReturnToStep1
    \/ Step1SelectRegion
    \/ Step1Continue
    \/ Step2Continue
    \/ Step3Continue
    \/ Step4Continue
    \/ DownloadPdf
    \/ NewSession
    \/ Step0Upload
    \/ Step0Continue

SpecRegion == InitRegion /\ [][NextRegion]_vars

(***************************************************************************)
(* The export of sessions with any number of address lines and of items.   *)
(***************************************************************************)
MaxLines == 2

\* Step 5 with n own address lines, c client address lines (the counts of
\* Steps 1 and 2, at least 1) and m items (Step 3 lets none through without
\* an item), for each region and bank country.
InitEncode ==
    /\ pc = "step5"
    /\ \E n \in 1..MaxLines, c \in 1..MaxLines, m \in 1..MaxItems,
          r \in {"UK", "US", "EU"}, b \in {"UK", "US"} :
           session = [FilledSession(r, "Acme", "PO7", "editing", "Thanks") EXCEPT
               !.profile.address_lines = [i \in 1..n |-> "Unit " \o IntStr(i)],
               !.client.address_lines  = [i \in 1..c |-> "Floor " \o IntStr(i)],
               !.line_items = [i \in 1..m |-> [basis |-> "per hour",
                                               description |-> "editing",
                                               qty |-> i * Frac, rate |-> 40 * Frac]],
               !.payments.bank_country = b,
               !.payments.bank_us = [BlankBankUs EXCEPT !.account_name = "Acme",
                                                        !.routing_number = "021000021",
                                                        !.account_number = "12345678"],
               !.your_addr_count = n,
               !.client_addr_count = c]
    /\ shown = step5_shown(session)
    /\ exported = None
    /\ embedded = ""
    /\ pdf_text = ""
    /\ quant = [x |-> 0, out |-> None]

SpecEncode == InitEncode /\ [][DownloadPdf]_vars

(***************************************************************************)
(* The upload of a PDF whose payload paragraph is laid out over several    *)
(* rows.                                                                   *)
(***************************************************************************)
MaxBreaks == 1

\* Payload lines of three pairs, with the delimiter escaped and unescaped.
WrapLines ==
    {"enc_region=UK&amp;enc_heading_name=Acme Ltd&amp;enc_footer_notes=Thanks",
     "enc_region=UK&enc_heading_name=Acme Ltd&enc_footer_notes=Thanks"}

InitWrap ==
    /\ pc = "step0"
    /\ session = ensure_session
    /\ shown = NothingShown
    /\ exported = None
    /\ embedded \in WrapLines
    /\ pdf_text = embedded
    /\ quant = [x |-> 0, out |-> None]

\* The text layer of the file: one more line break, after the first pos
\* characters of the text.
LineBreak ==
    \E pos \in 1..(Len(pdf_text) - 1) :
        /\ pc = "step0"
        /\ shown.message = ""
        /\ Cardinality(Occurrences(pdf_text, "\n")) < MaxBreaks
        /\ pdf_text' = SubSeq(pdf_text, 1, pos) \o "\n"
                           \o SubSeq(pdf_text, pos + 1, Len(pdf_text))
        /\ UNCHANGED <<pc, session, shown, exported, embedded, quant>>

NextWrap ==
    \/ LineBreak
    \/ Step0Upload
    \/ Step0Continue

SpecWrap == InitWrap /\ [][NextWrap]_vars

(***************************************************************************)
(* The upload of a file whose payload is any line of pairs: well-formed    *)
(* and malformed tokens, address-line and item keys in any order.          *)
(***************************************************************************)
MaxTokens == 2

InitDecode ==
    /\ pc = "step0"
    /\ session = ensure_session
    /\ shown = NothingShown
    /\ exported = None
    /\ embedded = ""
    /\ quant = [x |-> 0, out |-> None]
    /\ \E n \in 1..MaxTokens :
           \E toks \in [1..n ->
                   {"enc_region=UK", "garbage", "enc_=x", "enc_colour=red",
                    "enc_trading_address_line_=Z", "enc_bill_to_address_line_x=Z",
                    "enc_trading_address_line_2=Leeds",
                    "enc_trading_address_line_0=1 High St",
                    "enc_trading_address_line_10=UK",
                    "enc_bill_to_address_line_1=2 Low Rd",
                    "enc_bill_to_address_line_0=Client Co",
                    "enc_item_x_basis=per job", "enc_item_1_basis=per hour",
                    "enc_item_2_description=mixing", "enc_item_1_description=editing",
                    "enc_item_01_description=padded",
                    "enc_item_1_qty_display=1.5", "enc_item_3_qty_display=lots",
                    "enc_item_1_rate_display=40.0", "enc_item_2_rate_display=n/a",
                    "enc_tax_rate=20.0", "enc_tax_rate=abc",
                    "enc_terms_days=30", "enc_terms_days=soon", "enc_terms_days=1.5"}] :
               pdf_text = Join("&", toks)

NextDecode ==
    \/ Step0Upload
    \/ Step0Continue

SpecDecode == InitDecode /\ [][NextDecode]_vars

(***************************************************************************)
(* Properties of the monetary engine.                                      *)
(***************************************************************************)
RECURSIVE SumSeq(_)
SumSeq(q) == IF q = <<>> THEN 0 ELSE SumSeq(SubSeq(q, 1, Len(q) - 1)) + q[Len(q)]

\* The exact product of two stored floats, quantized to hundredths half up.
QuantizedProduct(qty, rate) ==
    LET r == Reduced(qty, rate, (Frac * Frac) \div DEC_QUANT)
    IN  IF 2 * (r.n % r.q) >= r.q THEN r.n \div r.q + 1 ELSE r.n \div r.q

\* C5: the line total compute_totals adds to the subtotal is the 2-decimal
\* half-up value of the product of the item's stored quantity and stored rate.
\* With one item in the list the subtotal shown at Step 3 is that line total.
C5_LineTotalIsQuantizedProduct ==
    (pc = "step3" /\ Len(session.line_items) = 1) =>
        shown.totals[1].subtotal =
            QuantizedProduct(session.line_items[1].qty, session.line_items[1].rate)

\* C6: the subtotal compute_totals returns is the sum of the line totals, each
\* quantized to 2 decimals before the summation; for an empty list it is 0.00.
C6_PerLineThenSum ==
    /\ shown.totals # None =>
           shown.totals[1].subtotal =
               SumSeq([i \in 1..Len(session.line_items) |->
                          line_total(session.line_items[i])])
    /\ compute_totals(<<>>, TaxRateOf(session)).subtotal = 0

\* C6, its case: two lines of half a cent each (0.5 x 0.01) are shown with a
\* subtotal of 0.02, where the quantized unrounded sum would be 0.01.
C6_Witness ==
    /\ pc = "step3"
    /\ Len(session.line_items) = 2
    /\ \A i \in 1..2 : session.line_items[i].qty = 5000 /\ session.line_items[i].rate = 100
    /\ shown.totals = Some(compute_totals(session.line_items, TaxRateOf(session)))
    /\ shown.totals[1].subtotal = 2

\* C7: the tax amount is subtotal x tax_rate / 100 to the nearest cent, a half
\* cent going up, and the total is subtotal + tax amount, for every tax rate
\* from 0 to 100.
C7_TaxAndTotal ==
    shown.totals # None =>
        LET t == shown.totals[1]
            r == Reduced(t.subtotal, TaxRateOf(session), Frac * 100)
        IN  /\ TaxRateOf(session) \in 0..(100 * Frac)
            /\ 2 * t.tax_amount * r.q - r.q <= 2 * r.n
            /\ 2 * r.n < 2 * t.tax_amount * r.q + r.q
            /\ t.total = t.subtotal + t.tax_amount

\* C7, its case: a subtotal of 60.00 at 20% is shown with tax 12.00 and total
\* 72.00.
C7_Witness ==
    /\ pc = "step3"
    /\ TaxRateOf(session) = 20 * Frac
    /\ shown.totals = Some([subtotal |-> 6000, tax_amount |-> 1200, total |-> 7200])

\* C8: on the Step-5 page every line total printed by the HTML preview table
\* and by the PDF table equals the line total compute_totals adds to the
\* subtotal, so the subtotal shown is the sum of the line totals shown.
C8_DisplayAgreesWithTotals ==
    pc = "step5" =>
        /\ \A i \in 1..Len(session.line_items) :
               /\ shown.preview_lines[i] = line_total(session.line_items[i])
               /\ shown.pdf_lines[i] = line_total(session.line_items[i])
        /\ shown.totals[1].subtotal = SumSeq(shown.preview_lines)
        /\ shown.totals[1].subtotal = SumSeq(shown.pdf_lines)

\* C10: d2 returns the 2-decimal value nearest to its argument, and when the
\* discarded part is exactly half a cent the result is the one away from zero.
C10_HalfUp ==
    quant.out # None =>
        LET unit == Frac \div DEC_QUANT
            y    == quant.out[1] * unit
        IN  /\ 2 * Abs(quant.x - y) <= unit
            /\ 2 * Abs(quant.x - y) = unit => Abs(y) > Abs(quant.x)

\* C10, its case: d2(1.005) has returned 1.01.
C10_Witness ==
    /\ quant.x = 10050
    /\ quant.out = Some(101)

\* C11: quantizing is idempotent: d2 applied to a value d2 has returned gives
\* that value back, d2(d2(x)) = d2(x).
C11_Idempotent ==
    "again" \in DOMAIN quant => quant.again = quant.out[1]

\* C11, its case: d2(1.005) = 1.01, and d2(1.01) has been computed.
C11_Witness ==
    /\ "again" \in DOMAIN quant
    /\ quant.x = 10050
    /\ quant.out = Some(101)

(***************************************************************************)
(* Properties of the codec's helpers.                                      *)
(***************************************************************************)
\* C12: _inc_invoice_number(s) is "INV-1" for the empty s, s followed by "-1"
\* when s does not end in a digit, and otherwise the text before the trailing
\* digit run followed by the run's number plus one, written in the run's
\* width, or in one digit more when the run is all nines.
C12_IncrementRule ==
    (quant.fn = "inc" /\ quant.out # None) =>
        LET s == quant.x
            r == quant.out[1]
            n == Len(s)
            k == Cardinality({i \in 1..n : \A j \in i..n : Ch(s, j) \in Digits})
            t == Drop(r, n - k)
        IN  IF s = "" THEN r = "INV-1"
            ELSE IF k = 0 THEN r = s \o "-1"
            ELSE /\ SubSeq(r, 1, n - k) = SubSeq(s, 1, n - k)
                 /\ AllDigits(t)
                 /\ DigitsVal(t) = DigitsVal(SubSeq(s, n - k + 1, n)) + 1
                 /\ Len(t) = IF \A j \in (n - k + 1)..n : Ch(s, j) = "9" THEN k + 1 ELSE k

\* C12, its case: "INV-00209" has become "INV-00210", the padding kept.
C12_Witness ==
    /\ quant.fn = "inc"
    /\ quant.x = "INV-00209"
    /\ quant.out = Some("INV-00210")

(***************************************************************************)
(* Properties of the snapshot codec.                                       *)
(***************************************************************************)
Contains(s, p) == Occurrences(s, p) # {}

\* The Step-0 page after an upload.
Uploaded == pc = "step0" /\ shown.message # ""

\* The text values a user types into the wizard.
TextFields(ss) ==
    {ss.profile.legal_name, ss.profile.trading_name, ss.profile.email,
     ss.profile.phone, ss.profile.mobile, ss.profile.company_number,
     ss.profile.vat_number, ss.profile.tax_id,
     ss.client.contact_name, ss.client.company_name, ss.client.email,
     ss.client.po_reference, ss.client.notes,
     ss.invoice.invoice_number, ss.invoice.tax_label_custom,
     ss.payments.wise_text, ss.payments.stripe_text, ss.payments.paypal_text,
     ss.payments.footer_notes}
    \cup {ss.profile.address_lines[i] : i \in 1..Len(ss.profile.address_lines)}
    \cup {ss.client.address_lines[i] : i \in 1..Len(ss.client.address_lines)}
    \cup {ss.line_items[i].description : i \in 1..Len(ss.line_items)}

\* Well-formed field values: no text holds the pair delimiter or a line break.
WellFormed(ss) ==
    \A t \in TextFields(ss) : ~Contains(t, "&") /\ ~Contains(t, "\n")

\* Every profile, client, invoice-meta, line-item and payment field of dec is
\* the one of orig, the invoice number being the incremented one.
RoundTrips(orig, dec) ==
    /\ \A k \in DOMAIN orig.profile : dec.profile[k] = orig.profile[k]
    /\ dec.client = orig.client
    /\ dec.invoice = [orig.invoice EXCEPT
                         !.invoice_number = inc_invoice_number(orig.invoice.invoice_number)]
    /\ dec.line_items = orig.line_items
    /\ dec.payments = orig.payments

\* C1: a snapshot with well-formed field values, encoded into the payload line,
\* extracted and decoded by the Step-0 prefill, comes back with every profile,
\* client, invoice, line-item and payment field of the original, the invoice
\* number incremented and empty fields empty.
C1_RoundTrip ==
    (Uploaded /\ exported # None /\ WellFormed(exported[1])) =>
        /\ shown.message = ParsedMessage
        /\ RoundTrips(exported[1], session)

\* The free-text fields of the original beside their decoded values.
FreeTextPairs(orig, dec) ==
    {<<orig.profile.legal_name, dec.profile.legal_name>>,
     <<orig.profile.trading_name, dec.profile.trading_name>>,
     <<orig.client.contact_name, dec.client.contact_name>>,
     <<orig.client.company_name, dec.client.company_name>>,
     <<orig.payments.footer_notes, dec.payments.footer_notes>>}
    \cup {<<orig.line_items[i].description,
            IF i <= Len(dec.line_items) THEN dec.line_items[i].description ELSE "">> :
          i \in 1..Len(orig.line_items)}

\* C2: a free-text field whose value holds a literal '&' is decoded to the
\* original value, the '&' included.
C2_AmpersandInValue ==
    (Uploaded /\ exported # None) =>
        \A p \in FreeTextPairs(exported[1], session) :
            Contains(p[1], "&") => p[2] = p[1]

\* The positions of the original line after which pdf_text has a line break.
BreakPositions ==
    LET at == SortedSeq(Occurrences(pdf_text, "\n"))
    IN  {at[k] - k : k \in 1..Len(at)}

\* The characters of a payload line that belong to no key and no value: the
\* pair delimiters and the '=' signs.
Punctuation(line) ==
    LET sep == IF Contains(line, "&amp;") THEN "&amp;" ELSE "&"
    IN  UNION {i..(i + Len(sep) - 1) : i \in Occurrences(line, sep)}
            \cup Occurrences(line, "=")

\* C3: with line breaks inserted inside keys (the key prefix included) and
\* inside values, the text extracts and decodes to the same key/value mapping
\* as the unsplit line.
C3_LineWrapTolerance ==
    (/\ Uploaded
     /\ BreakPositions # {}
     /\ \A b \in BreakPositions : {b, b + 1} \cap Punctuation(embedded) = {})
    => parse_enc_payload_to_dict(extract_enc_payload_text_from_pdf(pdf_text))
           = parse_enc_payload_to_dict(extract_enc_payload_text_from_pdf(embedded))

\* A session without its footer notes.
WithoutFooter(ss) ==
    [ss EXCEPT !.payments.footer_notes = "",
               !.profile = [k \in DOMAIN ss.profile |->
                               IF k = "footer_notes" THEN "" ELSE ss.profile[k]]]

\* C4: the snapshot exported and the snapshot that differs from it in the text
\* of the footer notes alone decode to the same value in every other field.
C4_NoFalsePairBoundaries ==
    (Uploaded /\ exported # None /\ exported[1].payments.footer_notes # "Thanks") =>
        LET other == [exported[1] EXCEPT !.payments.footer_notes = "Thanks"]
        IN  WithoutFooter(session)
                = WithoutFooter(step0_prefill(ensure_session, payload_line_of(other)))

\* C9: compute_totals on the line items and the tax rate decoded by the Step-0
\* prefill returns the subtotal, tax amount and total that compute_totals
\* returns on the items and the tax rate that were encoded.
C9_TotalsSurviveRoundTrip ==
    (Uploaded /\ exported # None) =>
        compute_totals(session.line_items, TaxRateOf(session))
            = compute_totals(exported[1].line_items, TaxRateOf(exported[1]))

(***************************************************************************)
(* Properties of the decoder.                                              *)
(***************************************************************************)
\* C13: whatever the payload line, decoding it does not raise; malformed
\* pairs are dropped and the well-formed pairs beside them are still decoded
\* (a region pair of the line comes back as the region).
C13_DecodingNeverFails ==
    Uploaded =>
        /\ shown.message # FailedMessage
        /\ Contains(pdf_text, "enc_region=UK") => session.profile.region = "UK"

\* The dict the upload has decoded from the text of the file.
DecodedPairs == parse_enc_payload_to_dict(extract_enc_payload_text_from_pdf(pdf_text)).val

\* lines holds exactly the values of the keys of val that start with prefix,
\* in the ascending order of the integers after the prefix.
SuffixOrdered(val, prefix, lines) ==
    LET ks == {k \in DOMAIN val : StartsWith(k, prefix)}
        suffix(k) == DigitsVal(Drop(k, Len(prefix)))
    IN  /\ Len(lines) = Cardinality(ks)
        /\ \E f \in [1..Len(lines) -> ks] :
               /\ \A i, j \in 1..Len(lines) : i < j =>
                      (f[i] # f[j] /\ suffix(f[i]) <= suffix(f[j]))
               /\ \A i \in 1..Len(lines) : lines[i] = val[f[i]]

\* C14: once a payload is decoded, the address lines of each role are the
\* values of that role's address-line keys in ascending order of their integer
\* suffixes, whatever the order of the keys in the payload and whatever gaps
\* the suffixes leave.
C14_AddressOrder ==
    (Uploaded /\ shown.message = ParsedMessage) =>
        /\ SuffixOrdered(DecodedPairs, "enc_trading_address_line_",
                         session.profile.address_lines)
        /\ SuffixOrdered(DecodedPairs, "enc_bill_to_address_line_",
                         session.client.address_lines)

\* C14, its case: suffix 10 came before suffix 2 in the text, suffixes 0 and 1
\* are missing, and the lines are in the order 2, 10.
C14_Witness ==
    /\ Uploaded
    /\ pdf_text = "enc_trading_address_line_10=UK&enc_trading_address_line_2=Leeds"
    /\ session.profile.address_lines = <<"Leeds", "UK">>

\* C15: the decoded items are one per distinct index found in the per-item
\* keys, in ascending order of index, and each field of an item is the value
\* of a key of that index and field, or empty when the payload has no such key.
C15_ItemReconstruction ==
    (Uploaded /\ shown.message = ParsedMessage) =>
        LET val   == DecodedPairs
            keys  == {k \in DOMAIN val : ItemIndex(k) # None}
            idxs  == SortedSeq({ItemIndex(k)[1] : k \in keys})
            items == session.profile.items
            own(i, field) == {k \in keys : /\ ItemIndex(k) = Some(i)
                                           /\ Drop(k, SkipIn(k, 10, Digits)) = field}
        IN  /\ Len(items) = Len(idxs)
            /\ \A n \in 1..Len(items) :
                   /\ items[n].number = IntStr(idxs[n])
                   /\ \A field \in {"basis", "description", "qty_display",
                                    "rate_display", "line_total_display"} :
                          IF own(idxs[n], field) = {} THEN items[n][field] = ""
                          ELSE \E k \in own(idxs[n], field) : items[n][field] = val[k]

\* C20: in a payload the decoder completes on, a quantity, rate or tax rate
\* whose text is no number is prefilled as 0 and a terms_days whose text is no
\* integer as null, and the fields beside them are prefilled all the same: the
\* region, and the numbers whose text is valid.
C20_InvalidNumericSubstitution ==
    (/\ Uploaded
     /\ \E bad \in {"=abc", "=lots", "=n/a", "=soon", "enc_terms_days=1.5"} :
            Contains(pdf_text, bad)
     /\ ~Contains(pdf_text, "_address_line_=")
     /\ ~Contains(pdf_text, "_address_line_x=")) =>
        /\ shown.message = ParsedMessage
        /\ session.profile.tax_rate = "abc" => session.invoice.tax_rate = 0
        /\ session.profile.tax_rate = "20.0" => session.invoice.tax_rate = 20 * Frac
        /\ session.profile.terms_days \in {"soon", "1.5"} =>
               session.invoice.terms_days = None
        /\ session.profile.terms_days = "30" => session.invoice.terms_days = Some(30)
        /\ Len(session.line_items) = Len(session.profile.items)
        /\ \A n \in 1..Len(session.line_items) :
               /\ session.profile.items[n].qty_display = "lots" =>
                      session.line_items[n].qty = 0
               /\ session.profile.items[n].rate_display = "n/a" =>
                      session.line_items[n].rate = 0
               /\ session.profile.items[n].rate_display = "40.0" =>
                      session.line_items[n].rate = 40 * Frac
        /\ Contains(pdf_text, "enc_region=UK") => session.profile.region = "UK"

\* C20, its case: a tax rate "abc" beside terms "soon", prefilled as 0 and null.
C20_Witness ==
    /\ Uploaded
    /\ pdf_text = "enc_tax_rate=abc&enc_terms_days=soon"
    /\ session.invoice.tax_rate = 0
    /\ session.invoice.terms_days = None

(***************************************************************************)
(* Properties of the scalar encoding and of the flags.                     *)
(***************************************************************************)
\* C16: a field whose value has no "&" decodes to the empty string exactly
\* when the value encoded was None, empty or whitespace only.
C16_EmptySentinel ==
    (/\ quant.fn = "enc"
     /\ "back" \in DOMAIN quant
     /\ quant.x.t = "str" => ~Contains(quant.x.s, "&")) =>
        (quant.back = "" <=>
            (quant.x.t = "none" \/ (quant.x.t = "str" /\ Strip(quant.x.s) = "")))

\* C17: _enc_scalar(v) is "NIL" for None and for a text that is empty or
\* whitespace only, "True" / "False" for a boolean and the text of v otherwise,
\* with every "&" of it written as "&amp;": no "&" of the result stands bare.
C17_ScalarEncoding ==
    (quant.fn = "enc" /\ quant.out # None) =>
        LET v     == quant.x
            r     == quant.out[1]
            text  == IF v.t = "str" THEN v.s
                     ELSE IF v.t = "int" THEN IntStr(v.n)
                     ELSE IF v.t = "float" THEN FloatStr(v.x)
                     ELSE ""
            plain == IF v.t = "none" THEN "NIL"
                     ELSE IF v.t = "bool" THEN (IF v.b THEN "True" ELSE "False")
                     ELSE IF Strip(text) = "" THEN "NIL"
                     ELSE text
        IN  /\ \A i \in Occurrences(r, "&") :
                   i + 4 <= Len(r) /\ SubSeq(r, i, i + 4) = "&amp;"
            /\ Cardinality(Occurrences(r, "&")) = Cardinality(Occurrences(plain, "&"))
            /\ Replace(r, "&amp;", "&") = plain

\* C17, its case: "Smith & Sons" has been encoded as "Smith &amp; Sons".
C17_Witness ==
    /\ quant.fn = "enc"
    /\ quant.x.t = "str"
    /\ quant.x.s = "Smith & Sons"
    /\ quant.out = Some("Smith &amp; Sons")

\* C18: the decoded flag is true exactly when the text of its key, trimmed
\* and in lower case, is one of true, 1, yes, on; it is false for an absent
\* key and for any other text.
C18_BooleanFlag ==
    (quant.fn = "bool" /\ quant.out # None) =>
        (quant.out[1] <=>
            (quant.x.t = "str"
             /\ Lower(Strip(quant.x.s)) \in {"true", "1", "yes", "on"}))

(***************************************************************************)
(* Properties of the encoder.                                              *)
(***************************************************************************)
\* The keys of the pairs of a payload line, in the order written.
KeysOf(line) ==
    LET toks == Split(line, "&amp;")
    IN  [j \in 1..Len(toks) |-> SubSeq(toks[j], 1, Min(Occurrences(toks[j], "=")) - 1)]

\* The place of a key in the order of the payload: 1 region, 2 names, 3 own
\* address lines, 4 contact fields, 5 company identifiers, 6 client fields
\* and client address lines, 7 invoice metadata, 8 item blocks, 9 payment
\* flags and texts, 10 bank fields, 11 footer notes.
GroupOf(k) ==
    IF k = "enc_region" THEN 1
    ELSE IF k \in {"enc_heading_name", "enc_trading_name"} THEN 2
    ELSE IF StartsWith(k, "enc_trading_address_line_") THEN 3
    ELSE IF k \in {"enc_email", "enc_phone", "enc_mobile"} THEN 4
    ELSE IF k \in {"enc_company_number", "enc_vat_number", "enc_tax_id"} THEN 5
    ELSE IF StartsWith(k, "enc_bill_to_") THEN 6
    ELSE IF k \in {"enc_invoice_number", "enc_invoice_date", "enc_terms_days",
                   "enc_currency", "enc_tax_label_mode", "enc_tax_label_custom",
                   "enc_tax_rate", "enc_due_date"} THEN 7
    ELSE IF StartsWith(k, "enc_item_") THEN 8
    ELSE IF k \in {"enc_accept_wise", "enc_wise_text", "enc_accept_stripe",
                   "enc_stripe_text", "enc_accept_paypal", "enc_paypal_text",
                   "enc_accept_bank"} THEN 9
    ELSE IF StartsWith(k, "enc_bank_") THEN 10
    ELSE IF k = "enc_footer_notes" THEN 11
    ELSE 0

\* C19: the keys of an exported payload follow the fixed order of the groups;
\* the address-line keys of a role carry the suffixes 0..n-1 (0..c-1) in
\* ascending order, and the item keys are the blocks 1..m in ascending order,
\* each of number, basis, description, qty_display, rate_display,
\* line_total_display in that order.
C19_KeyOrder ==
    exported # None =>
        LET keys   == KeysOf(embedded)
            n      == Len(exported[1].profile.address_lines)
            c      == Len(exported[1].client.address_lines)
            m      == Len(exported[1].line_items)
            fields == <<"number", "basis", "description", "qty_display",
                        "rate_display", "line_total_display">>
        IN  /\ \A j \in 1..(Len(keys) - 1) :
                   GroupOf(keys[j]) >= 1 /\ GroupOf(keys[j]) <= GroupOf(keys[j + 1])
            /\ {GroupOf(keys[j]) : j \in 1..Len(keys)} = 1..11
            /\ SelectSeq(keys, LAMBDA k : StartsWith(k, "enc_trading_address_line_"))
                   = [i \in 1..n |-> "enc_trading_address_line_" \o IntStr(i - 1)]
            /\ SelectSeq(keys, LAMBDA k : StartsWith(k, "enc_bill_to_address_line_"))
                   = [i \in 1..c |-> "enc_bill_to_address_line_" \o IntStr(i - 1)]
            /\ SelectSeq(keys, LAMBDA k : StartsWith(k, "enc_item_"))
                   = [j \in 1..(6 * m) |->
                         "enc_item_" \o IntStr(((j - 1) \div 6) + 1) \o "_"
                             \o fields[((j - 1) % 6) + 1]]

\* C19, its case: a snapshot of two own address lines, two client address
\* lines and two items has been exported.
C19_Witness ==
    /\ exported # None
    /\ Len(exported[1].profile.address_lines) = 2
    /\ Len(exported[1].client.address_lines) = 2
    /\ Len(exported[1].line_items) = 2
    /\ Contains(embedded, "enc_item_2_line_total_display=")


(***************************************************************************)
(* Absent fields (SpecDecode).                                             *)
(***************************************************************************)
\* Some "enc_", one key character or more (line breaks and blanks between
\* them at most) and an "=" occur in t.
HasKeyToken(t) ==
    \E i \in 1..Len(t) : \E j \in (i + 5)..Len(t) :
        /\ EncPrefixAt(t, i)
        /\ Ch(t, j) = "="
        /\ \A b \in (i + 4)..(j - 1) : Ch(t, b) \in KeyChars \cup Whitespace
        /\ \E b \in (i + 4)..(j - 1) : Ch(t, b) \in KeyChars

\* The text fields of the flat dict prof, each with the key it is read from.
ProfTextKeys ==
    << <<"region", "enc_region">>, <<"legal_name", "enc_heading_name">>,
       <<"trading_name", "enc_trading_name">>, <<"email", "enc_email">>,
       <<"phone", "enc_phone">>, <<"mobile", "enc_mobile">>,
       <<"company_number", "enc_company_number">>, <<"vat_number", "enc_vat_number">>,
       <<"tax_id", "enc_tax_id">>, <<"contact_name", "enc_bill_to_contact_name">>,
       <<"company_name", "enc_bill_to_company_name">>,
       <<"client_email", "enc_bill_to_email">>,
       <<"po_reference", "enc_bill_to_po_reference">>, <<"notes", "enc_bill_to_notes">>,
       <<"invoice_date", "enc_invoice_date">>, <<"terms_days", "enc_terms_days">>,
       <<"currency", "enc_currency">>, <<"tax_label_mode", "enc_tax_label_mode">>,
       <<"tax_label_custom", "enc_tax_label_custom">>, <<"tax_rate", "enc_tax_rate">>,
       <<"wise_text", "enc_wise_text">>, <<"stripe_text", "enc_stripe_text">>,
       <<"paypal_text", "enc_paypal_text">>, <<"bank_country", "enc_bank_country">>,
       <<"footer_notes", "enc_footer_notes">> >>

\* The flags and the bank fields of prof, each with its key.
ProfFlagKeys ==
    << <<"accept_wise", "enc_accept_wise">>, <<"accept_stripe", "enc_accept_stripe">>,
       <<"accept_paypal", "enc_accept_paypal">>, <<"accept_bank", "enc_accept_bank">> >>

BankUkFields == <<"account_name", "sort_code", "account_number", "iban", "bic">>
BankUsFields == <<"account_name", "routing_number", "account_number", "ach_wire_notes">>

\* prof holds the zero value of every field whose key enc does not have; the
\* invoice number of an absent key is the default of the increment rule.
ZeroWhereAbsent(enc, prof) ==
    LET absent(k) == k \notin DOMAIN enc.val
    IN  /\ \A n \in DOMAIN ProfTextKeys :
               absent(ProfTextKeys[n][2]) => prof[ProfTextKeys[n][1]] = ""
        /\ \A n \in DOMAIN ProfFlagKeys :
               absent(ProfFlagKeys[n][2]) => prof[ProfFlagKeys[n][1]] = FALSE
        /\ \A n \in DOMAIN BankUkFields :
               absent("enc_bank_uk_" \o BankUkFields[n]) => prof.bank_uk[BankUkFields[n]] = ""
        /\ \A n \in DOMAIN BankUsFields :
               absent("enc_bank_us_" \o BankUsFields[n]) => prof.bank_us[BankUsFields[n]] = ""
        /\ KeysWithPrefix(enc, "enc_trading_address_line_") = <<>> => prof.address_lines = <<>>
        /\ KeysWithPrefix(enc, "enc_bill_to_address_line_") = <<>>
               => prof.client_address_lines = <<>>
        /\ (\A n \in DOMAIN enc.keys : ItemIndex(enc.keys[n]) = None) => prof.items = <<>>
        /\ absent("enc_invoice_number") => prof.invoice_number = "INV-1"

\* The snapshot that has nothing in it but the default invoice number.
EmptySnapshot(prof) ==
    /\ \A n \in DOMAIN ProfTextKeys : prof[ProfTextKeys[n][1]] = ""
    /\ \A n \in DOMAIN ProfFlagKeys : prof[ProfFlagKeys[n][1]] = FALSE
    /\ prof.bank_uk = BlankBankUk /\ prof.bank_us = BlankBankUs
    /\ prof.address_lines = <<>> /\ prof.client_address_lines = <<>> /\ prof.items = <<>>
    /\ prof.invoice_number = "INV-1"

\* The dict of the upload, with its keys in the order of insertion.
DecodedDict == parse_enc_payload_to_dict(extract_enc_payload_text_from_pdf(pdf_text))

\* The session after the prefill from the dict enc holds the zero value of
\* every field whose key enc does not have.
PrefilledZeroWhereAbsent(enc) ==
    LET absent(k) == k \notin DOMAIN enc.val
    IN  /\ ZeroWhereAbsent(enc, session.profile)
        /\ absent("enc_tax_rate") => session.invoice.tax_rate = 0
        /\ absent("enc_terms_days") => session.invoice.terms_days = None
        /\ absent("enc_currency") => session.invoice.currency = ""
        /\ absent("enc_tax_label_mode") => session.invoice.tax_label_mode = ""
        /\ absent("enc_tax_label_custom") => session.invoice.tax_label_custom = ""
        /\ absent("enc_invoice_number") => session.invoice.invoice_number = "INV-1"
        /\ absent("enc_invoice_date") => session.invoice.invoice_date = Today
        /\ absent("enc_bill_to_contact_name") => session.client.contact_name = ""
        /\ absent("enc_bill_to_company_name") => session.client.company_name = ""
        /\ absent("enc_bill_to_email") => session.client.email = ""
        /\ absent("enc_bill_to_po_reference") => session.client.po_reference = ""
        /\ absent("enc_bill_to_notes") => session.client.notes = ""
        /\ absent("enc_bank_country") => session.payments.bank_country = ""
        /\ absent("enc_accept_bank") => session.payments.accept_bank = FALSE
        /\ absent("enc_footer_notes") => session.payments.footer_notes = ""
        /\ (\A n \in DOMAIN enc.keys : ItemIndex(enc.keys[n]) = None)
               => session.line_items = <<>>

\* C21: for every payload and every field whose key does not occur in it, the
\* decoded snapshot holds the field's zero value: "" for a text or an enum, 0
\* for the tax rate, no value for the terms, FALSE for a flag, the empty list
\* for the address lines and the items (the invoice date, which has no zero,
\* stays the date of the session); the invoice number of an absent key is the
\* default of the increment rule, "INV-1".  A payload line that is empty or
\* has no pair in it decodes to the empty snapshot.
C21_AbsentFieldsAreZero ==
    /\ EmptySnapshot(build_prof_from_payload(parse_enc_payload_to_dict("")))
    /\ (~HasKeyToken(pdf_text)
           => EmptySnapshot(build_prof_from_payload(parse_enc_payload_to_dict(pdf_text))))
    /\ (Uploaded /\ shown.message = ParsedMessage) => PrefilledZeroWhereAbsent(DecodedDict)

\* C21 witness: a payload with a region and no tax rate, no terms and no
\* invoice number has been decoded.
C21_Witness ==
    /\ Uploaded /\ shown.message = ParsedMessage
    /\ "enc_region" \in DOMAIN DecodedDict.val
    /\ "enc_tax_rate" \notin DOMAIN DecodedDict.val
    /\ session.profile.region = "UK"
    /\ session.invoice.invoice_number = "INV-1"
    /\ session.invoice.tax_rate = 0


(***************************************************************************)
(* A file without a payload (SpecDecode).                                  *)
(***************************************************************************)
\* C22: for every extracted text in which no key token is recognisable, the
\* extractor returns the empty text (it does not fail), and Step 0 shows the
\* warning of a file without payload and leaves the session as it was.
C22_NoPayload ==
    ~HasKeyToken(pdf_text) =>
        /\ extract_enc_payload_text_from_pdf(pdf_text) = ""
        /\ session = ensure_session
        /\ Uploaded => shown.message = NoPayloadMessage

\* C22 witness: a text without a key token has been uploaded.
C22_Witness ==
    /\ ~HasKeyToken(pdf_text)
    /\ Contains(pdf_text, "enc_=x")
    /\ Uploaded
    /\ shown.message = NoPayloadMessage


(***************************************************************************)
(* The VAT number and the tax id (SpecRegion).                             *)
(***************************************************************************)
\* C23: in every state reached from region selections, Step-1 form entries
\* and prefills from payloads this encoder produced, at most one of the
\* profile's vat_number and tax_id is non-empty.
C23_VatOrTaxId ==
    ~ /\ GetOr(session.profile, "vat_number", "") # ""
      /\ GetOr(session.profile, "tax_id", "") # ""


C25_InvoiceDateRoundTrip ==
    (quant.fn = "date" /\ "back" \in DOMAIN quant) =>
        quant.back = quant.x.invoice_date


(***************************************************************************)
(* The client of the prefill (SpecCodec).                                  *)
(***************************************************************************)
\* C26: after a Step-0 prefill every field of the client (contact_name,
\* company_name, the address lines, email, po_reference, notes) is the value
\* of its enc_bill_to_* key of the payload.
C26_ClientPrefill ==
    (Uploaded /\ shown.message = ParsedMessage) =>
        /\ session.client.contact_name = EncGet(DecodedDict, "enc_bill_to_contact_name", "")
        /\ session.client.company_name = EncGet(DecodedDict, "enc_bill_to_company_name", "")
        /\ session.client.address_lines = addr_list(DecodedDict, "enc_bill_to_address_line_")
        /\ session.client.email = EncGet(DecodedDict, "enc_bill_to_email", "")
        /\ session.client.po_reference = EncGet(DecodedDict, "enc_bill_to_po_reference", "")
        /\ session.client.notes = EncGet(DecodedDict, "enc_bill_to_notes", "")


(***************************************************************************)
(* The domains of the prefilled values (SpecDecode).                       *)
(***************************************************************************)
\* C27: after a prefill from any payload that decodes without error, the
\* currency is one of GBP, USD and EUR, the tax rate lies within 0..100, the
\* terms are unset or a non-negative integer, and the quantity and the rate
\* of every item are non-negative, so that Step 3 can be rendered.
C27_PrefillWithinDomains ==
    (Uploaded /\ shown.message = ParsedMessage) =>
        /\ session.invoice.currency \in {"GBP", "USD", "EUR"}
        /\ session.invoice.tax_rate >= 0 /\ session.invoice.tax_rate <= 100 * Frac
        /\ session.invoice.terms_days = None \/ session.invoice.terms_days[1] >= 0
        /\ \A n \in DOMAIN session.line_items :
               session.line_items[n].qty >= 0 /\ session.line_items[n].rate >= 0


(***************************************************************************)
(* The totals shown (SpecMoney).                                           *)
(***************************************************************************)
\* C28: on the Step-5 page the Total shown by the preview and by the PDF is
\* the Subtotal shown plus the tax row shown; where there is no tax row (tax
\* label "None") the Total is the Subtotal, whatever tax rate was entered.
C28_TotalsSelfConsistent ==
    pc = "step5" =>
        LET t == shown.totals[1]
        IN  /\ t.total = t.subtotal + (IF preview_tax_row(session) THEN t.tax_amount ELSE 0)
            /\ t.total = t.subtotal + (IF pdf_tax_row(session) THEN t.tax_amount ELSE 0)


(***************************************************************************)
(* The bank details of the payload (SpecEncode).                           *)
(***************************************************************************)
\* The pairs toks (each the text "key=value") have the pair key=text.
HasPair(toks, key, text) == \E j \in DOMAIN toks : toks[j] = key \o "=" \o text

\* The text of a stored value: the sentinel for a blank one.
StoredText(v) == IF Strip(v) = "" THEN "NIL" ELSE v

\* The bank pairs among toks for the payments pay.
BankPairs(toks, pay) ==
    /\ \A n \in DOMAIN BankUkFields :
           HasPair(toks, "enc_bank_uk_" \o BankUkFields[n],
                   IF pay.bank_country = "UK"
                   THEN StoredText(pay.bank_uk[BankUkFields[n]]) ELSE "NIL")
    /\ \A n \in DOMAIN BankUsFields :
           HasPair(toks, "enc_bank_us_" \o BankUsFields[n],
                   IF pay.bank_country = "US"
                   THEN StoredText(pay.bank_us[BankUsFields[n]]) ELSE "NIL")

\* C29: in the encoded payload every bank key of the country that is not
\* selected carries the sentinel NIL, whatever details are stored for that
\* country, and every bank key of the selected country carries the stored
\* value.
C29_ActiveBankOnly ==
    exported # None => BankPairs(Split(embedded, "&amp;"), exported[1].payments)

\* C29 witness: a session with the country US selected and UK details stored
\* has been exported.
C29_Witness ==
    /\ exported # None
    /\ exported[1].payments.bank_country = "US"
    /\ exported[1].payments.bank_uk.sort_code = "12-34-56"
    /\ Contains(embedded, "enc_bank_uk_sort_code=NIL")
    /\ Contains(embedded, "enc_bank_us_routing_number=021000021")


(***************************************************************************)
(* The due date (SpecHelpers).                                             *)
(***************************************************************************)
\* The number of the day dt, counted from 1 January of the year 1.
DayNumber(dt) ==
    LET y == dt.y - 1
        before == <<0, 31, 59, 90, 120, 151, 181, 212, 243, 273, 304, 334>>
        leap == (dt.y % 4 = 0 /\ dt.y % 100 # 0) \/ dt.y % 400 = 0
    IN  365 * y + (y \div 4) - (y \div 100) + (y \div 400)
        + before[dt.m] + (IF leap /\ dt.m > 2 THEN 1 ELSE 0) + dt.d

\* C30: compute_due_date(d, n) is the date max(0, n - 1) days after d, for
\* every invoice date d and every number of days n: it is never earlier than
\* the invoice date, and terms of 0 and of 1 both give the invoice date.
C30_DueDate ==
    (quant.fn = "due" /\ quant.out # None) =>
        LET d == quant.x.invoice_date
            n == quant.x.terms_days
            due == quant.out[1]
        IN  /\ ValidDate(due.y, due.m, due.d)
            /\ DayNumber(due) = DayNumber(d) + (IF n - 1 > 0 THEN n - 1 ELSE 0)
            /\ DayNumber(due) >= DayNumber(d)
            /\ n \in {0, 1} => due = d

\* C30 witness: terms of 30 days from 31 January 2025 gave 1 March 2025.
C30_Witness ==
    /\ quant.fn = "due"
    /\ quant.x.invoice_date.m = 1 /\ quant.x.invoice_date.d = 31
    /\ quant.x.terms_days = 30
    /\ quant.out # None
    /\ quant.out[1].y = 2025 /\ quant.out[1].m = 3 /\ quant.out[1].d = 1

====
